---- MODULE Spec2Model ----
(***************************************************************************)
(* A model of ts-protobuf-decoder: the wire-format decoder (parseVarint,   *)
(* parseFieldType, parseFieldNumber, parseFieldValue, the scan loop        *)
(* getDecodedFieldNumberToWireFormatMap) and the assembler                 *)
(* (pullMessageMetadataFromAst, decodeMessage) of src/src/decoder.ts, and  *)
(* the Reader, Lexer and Parser of the parser file.                        *)
(*                                                                         *)
(* JavaScript values are tagged records.  A JavaScript number that holds a *)
(* non-negative integer is kept as its binary numeral (most significant    *)
(* bit first, no leading zero, the empty numeral for 0), so that varints   *)
(* beyond 31 bits keep their value; byte offsets and field numbers, which  *)
(* stay small or are 32-bit results of >>, are plain integers.             *)
(***************************************************************************)
EXTENDS Integers, Sequences, FiniteSets, TLC

VARIABLES
    binary,              \* decodeMessage / parse* argument: the byte buffer
    encoded,             \* the (field number, wire type, value) list the buffer encodes
    tail,                \* what follows the encoded fields in the buffer ("none", ...)
    protoDefinitionAst,  \* decodeMessage argument: the schema forest, or undefined
    messageName,         \* decodeMessage argument: the message name, or undefined
    pc,                  \* position in decodeMessage, or in the direct call
    byteIndex,           \* scan loop: let byteIndex
    map,                 \* scan loop: const map
    partialDecoding,     \* decodeMessage: const partialDecoding
    messageMeta,         \* decodeMessage: const messageMeta
    result,              \* what the call returned
    thrown,              \* the error the call raised
    call,                \* direct call of an exported function: its name and arguments
    proto,               \* Parser / Lexer constructor argument: the schema text
    written,             \* how the schema text was written: its runs, separators, defect
    source,              \* Reader: private source (what remains of the text)
    rootAst,             \* Parser.parse: const rootAst
    messageAst,          \* Parser.consumeMessage: const ast (the message being built)
    lim,                 \* Parser.parse: let lim
    infiniteLoopGuard,   \* Parser.consumeMessage: let infiniteLoopGuard
    lexed                \* what consume has delivered so far: the Lexer's tokens, the Reader's characters

\* The state of a decodeMessage call, and of a Parser or Lexer.
wireVars == <<binary, encoded, tail, protoDefinitionAst, messageName, byteIndex,
              map, partialDecoding, messageMeta>>
schemaVars == <<proto, written, source, rootAst, messageAst, lim, infiniteLoopGuard, lexed>>

vars == <<binary, encoded, tail, protoDefinitionAst, messageName, pc, byteIndex,
          map, partialDecoding, messageMeta, result, thrown, call, schemaVars>>

(***************************************************************************)
(* Bounds of the model.                                                    *)
(***************************************************************************)
\* Number of complete (tag, value) encodings concatenated in one buffer.
MaxFields == 2
\* Longest array the LEN loop of a direct parseFieldValue call is followed for.
MaxArrayLen == 130

(***************************************************************************)
(* JavaScript values.                                                      *)
(***************************************************************************)
\* binary[i] past the end of the buffer.
undefined == -1
\* nextByteIndex + undefined.
NaN == -2

JsUndefined == [t |-> "undefined"]
JsNumber(bits) == [t |-> "number", n |-> bits]
JsArray(elems) == [t |-> "array", a |-> elems]
JsString(codes) == [t |-> "string", s |-> codes]
JsBoolean(b) == [t |-> "boolean", b |-> b]
JsObject(m) == [t |-> "object", m |-> m]
NoValue == [t |-> "none"]

Zeros(k) == [i \in 1..k |-> 0]
Reverse(s) == [i \in 1..Len(s) |-> s[Len(s) + 1 - i]]

\* A numeral without its leading zeros.
StripZeros(bits) ==
    LET ones == {i \in 1..Len(bits) : bits[i] = 1}
    IN IF ones = {} THEN <<>>
       ELSE SubSeq(bits, CHOOSE i \in ones : \A j \in ones : i <= j, Len(bits))

\* Number.prototype.toString(2) of an integer 0 <= n < 2^31.
ToString2(n) ==
    LET digits == IF n >= 2^30 THEN 31
                  ELSE CHOOSE k \in 1..30 : n < 2^k /\ (k = 1 \/ n >= 2^(k - 1))
    IN [i \in 1..digits |-> (n \div 2^(digits - i)) % 2]

\* String.prototype.padStart(len, "0").
PadStart(s, len) == IF Len(s) >= len THEN s ELSE Zeros(len - Len(s)) \o s

\* The numeral of a small integer.
NumOf(n) == StripZeros(ToString2(n))

\* The integer of a numeral of at most 31 bits.
RECURSIVE NumToInt(_)
NumToInt(bits) ==
    IF bits = <<>> THEN 0
    ELSE IF Len(bits) = 1 THEN bits[1]
    ELSE LET low == Len(bits) \div 2
         IN NumToInt(SubSeq(bits, 1, Len(bits) - low)) * 2^low
            + NumToInt(SubSeq(bits, Len(bits) - low + 1, Len(bits)))

\* bits + 1.
Increment(bits) ==
    LET zeros == {i \in 1..Len(bits) : bits[i] = 0}
    IN IF zeros = {} THEN <<1>> \o Zeros(Len(bits))
       ELSE LET last == CHOOSE i \in zeros : \A j \in zeros : j <= i
            IN SubSeq(bits, 1, last - 1) \o <<1>> \o Zeros(Len(bits) - last)

\* A JavaScript number is a double: 53 significant bits, round to nearest, ties to even.
DOUBLE_PRECISION == 53

RoundToDouble(bits) ==
    IF Len(bits) <= DOUBLE_PRECISION THEN bits
    ELSE LET m == SubSeq(bits, 1, DOUBLE_PRECISION)
             rest == SubSeq(bits, DOUBLE_PRECISION + 1, Len(bits))
             sticky == \E i \in 2..Len(rest) : rest[i] = 1
             up == rest[1] = 1 /\ (sticky \/ m[DOUBLE_PRECISION] = 1)
         IN (IF up THEN Increment(m) ELSE m) \o Zeros(Len(rest))

\* parseInt(s, 2) of a non-empty string of binary digits.
ParseInt2(s) == RoundToDouble(StripZeros(s))

\* a + b, bit by bit: position i (1 = least significant) receives a carry when some
\* lower position generates one and every position between propagates it.
NumAdd(a, b) ==
    LET width == (IF Len(a) > Len(b) THEN Len(a) ELSE Len(b)) + 1
        x == Reverse(PadStart(a, width))
        y == Reverse(PadStart(b, width))
        carry(i) == \E j \in 1..(i - 1) :
                       /\ x[j] + y[j] = 2
                       /\ \A k \in (j + 1)..(i - 1) : x[k] + y[k] >= 1
        sum == [i \in 1..width |-> (x[i] + y[i] + (IF carry(i) THEN 1 ELSE 0)) % 2]
    IN StripZeros(Reverse(sum))

\* a * 2^k
NumTimesPow2(a, k) == IF a = <<>> THEN <<>> ELSE a \o Zeros(k)

\* binary[i] (0-based), undefined past the end.
At(buf, i) == IF i >= 0 /\ i < Len(buf) THEN buf[i + 1] ELSE undefined

\* x & mask for a byte x or undefined (ToInt32(undefined) = 0), mask = 2^k - 1 or 2^k.
BitAndLow(x, m) == IF x = undefined THEN 0 ELSE x % m
BitAndBit(x, m) == IF x = undefined THEN 0 ELSE ((x \div m) % 2) * m

\* A byte read from the buffer as a JavaScript value.
JsByte(x) == IF x = undefined THEN JsUndefined ELSE JsNumber(NumOf(x))

(***************************************************************************)
(* decoder.ts: the wire-format functions.                                  *)
(***************************************************************************)
\* A plausible slip: the group wire types accepted as well.
WIRE_TYPE_MAP_WithGroups ==
    (0 :> "VARINT") @@ (1 :> "I64") @@ (2 :> "LEN") @@ (3 :> "SGROUP")
    @@ (4 :> "EGROUP") @@ (5 :> "I32")

WIRE_TYPE_MAP == (0 :> "VARINT") @@ (1 :> "I64") @@ (2 :> "LEN") @@ (5 :> "I32")

WIRE_TYPE == {WIRE_TYPE_MAP[k] : k \in DOMAIN WIRE_TYPE_MAP}

VARINT_CONTINUATION_BIT == 128

\* The first index >= i whose byte has the continuation bit clear (the while loop).
VarintLastIndex(buf, i) ==
    LET end == IF i > Len(buf) THEN i ELSE Len(buf)
        stops == {j \in i..end : BitAndBit(At(buf, j), VARINT_CONTINUATION_BIT) = 0}
    IN CHOOSE j \in stops : \A k \in stops : j <= k

\* .reduce((prev, current) => prev + current, "")
RECURSIVE ConcatAll(_)
ConcatAll(strs) ==
    IF strs = <<>> THEN <<>>
    ELSE IF Len(strs) = 1 THEN strs[1]
    ELSE LET half == Len(strs) \div 2
         IN ConcatAll(SubSeq(strs, 1, half)) \o ConcatAll(SubSeq(strs, half + 1, Len(strs)))

\* A plausible slip: the 7-bit groups concatenated in buffer order, without .reverse().
ConcatenatedBinaryString_NoReverse(bytes) ==
    ConcatAll([i \in 1..Len(bytes) |-> PadStart(ToString2(BitAndLow(bytes[i], 128)), 7)])

\* bytes.map(drop MSB).map(toString(2).padStart(7, "0")).reverse().reduce(concat)
ConcatenatedBinaryString(bytes) ==
    LET dropped == [i \in 1..Len(bytes) |-> BitAndLow(bytes[i], 128)]
        strings == [i \in 1..Len(bytes) |-> PadStart(ToString2(dropped[i]), 7)]
    IN ConcatAll(Reverse(strings))

parseVarint(buf, currentByteIndex) ==
    IF BitAndBit(At(buf, currentByteIndex), VARINT_CONTINUATION_BIT) = 0
    THEN [value |-> JsByte(At(buf, currentByteIndex)),
          nextByteIndex |-> currentByteIndex + 1]
    ELSE LET localIndex == VarintLastIndex(buf, currentByteIndex)
             bytes == [i \in 1..(localIndex - currentByteIndex + 1) |->
                          At(buf, currentByteIndex + i - 1)]
             concatenatedBinaryString == ConcatenatedBinaryString(bytes)
         IN [value |-> JsNumber(ParseInt2(concatenatedBinaryString)),
             nextByteIndex |-> currentByteIndex + Len(bytes)]

Return(v) == [throws |-> FALSE, value |-> v]
Throw(message, arg) == [throws |-> TRUE, error |-> [message |-> message, arg |-> arg]]

\* A plausible slip: an unknown wire type read as VARINT instead of raising.
parseFieldType_NoThrow(byte) ==
    LET typeBits == BitAndLow(byte, 8)
    IN Return(IF typeBits \in DOMAIN WIRE_TYPE_MAP THEN WIRE_TYPE_MAP[typeBits] ELSE "VARINT")

\* Returns the wire type, or throws `Unknown wire type = "${typeBits}" (decimal)`.
parseFieldType(byte) ==
    LET typeBits == BitAndLow(byte, 8)
    IN IF typeBits \notin DOMAIN WIRE_TYPE_MAP
       THEN Throw("Unknown wire type", typeBits)
       ELSE Return(WIRE_TYPE_MAP[typeBits])

\* ToInt32 of a non-negative integer numeral: its low 32 bits as a signed integer.
ToInt32(bits) ==
    LET padded == PadStart(bits, 32)
        low == SubSeq(padded, Len(padded) - 31, Len(padded))
        low31 == NumToInt(StripZeros(Tail(low)))
    IN IF Head(low) = 1 THEN (low31 - 2^30) - 2^30 ELSE low31

\* x >> 3 of an int32 x (sign-propagating).
ShiftRight3(x) == x \div 8

parseFieldNumber(buf, currentByteIndex) ==
    IF BitAndBit(At(buf, currentByteIndex), VARINT_CONTINUATION_BIT) = 0
    THEN [fieldNumber |-> ShiftRight3(BitAndLow(At(buf, currentByteIndex), 256)),
          nextByteIndex |-> currentByteIndex + 1]
    ELSE LET r == parseVarint(buf, currentByteIndex)
         IN [fieldNumber |-> ShiftRight3(ToInt32(r.value.n)),
             nextByteIndex |-> r.nextByteIndex]

\* A plausible slip: the bytes read from one position too far.
ReadBytes_OffByOne(buf, i, n) == [k \in 1..n |-> At(buf, i + k)]

\* [binary[i], ..., binary[i + n - 1]], undefined where the buffer has ended.
ReadBytes(buf, i, n) == [k \in 1..n |-> At(buf, i + k - 1)]

\* Whether the LEN loop at this offset stays within the arrays the model follows.
LenFits(buf, currentByteIndex) ==
    LET r == parseVarint(buf, currentByteIndex)
    IN r.value.t = "number" =>
          /\ Len(r.value.n) <= 30
          /\ NumToInt(r.value.n) <= MaxArrayLen

parseFieldValue(buf, currentByteIndex, type) ==
    IF type = "VARINT"
    THEN LET res == parseVarint(buf, currentByteIndex)
         IN Return([value |-> res.value, nextByteIndex |-> res.nextByteIndex])
    ELSE IF type = "LEN"
    THEN LET r == parseVarint(buf, currentByteIndex)
         IN IF r.value.t = "undefined"
            \* i < undefined is false; nextByteIndex + undefined is NaN
            THEN Return([value |-> JsArray(<<>>), nextByteIndex |-> NaN])
            ELSE LET n == NumToInt(r.value.n)
                 IN Return([value |-> JsArray(ReadBytes(buf, r.nextByteIndex, n)),
                            nextByteIndex |-> r.nextByteIndex + n])
    ELSE IF type = "I32"
    THEN Return([value |-> JsArray(ReadBytes(buf, currentByteIndex, 4)),
                 nextByteIndex |-> currentByteIndex + 4])
    ELSE IF type = "I64"
    THEN Return([value |-> JsArray(ReadBytes(buf, currentByteIndex, 8)),
                 nextByteIndex |-> currentByteIndex + 8])
    ELSE Throw("Cannot parse wire type yet", type)

\* map[key] = entry on a JavaScript object with number keys.
SetKey(m, key, entry) == (key :> entry) @@ m

\* One iteration of the while loop of getDecodedFieldNumberToWireFormatMap.
ScanBody(buf, m, index) ==
    LET type == parseFieldType(At(buf, index))
    IN IF type.throws THEN type
       ELSE LET parseFieldNumberResponse == parseFieldNumber(buf, index)
                parseFieldValueResponse ==
                    parseFieldValue(buf, parseFieldNumberResponse.nextByteIndex, type.value)
            IN IF parseFieldValueResponse.throws THEN parseFieldValueResponse
               ELSE Return([map |-> SetKey(m, parseFieldNumberResponse.fieldNumber,
                                           [type |-> type.value,
                                            value |-> parseFieldValueResponse.value.value]),
                            byteIndex |-> parseFieldValueResponse.value.nextByteIndex])

(***************************************************************************)
(* decoder.ts: the assembler.                                              *)
(***************************************************************************)
\* A plausible slip: the last message of that name taken, not the first.
FindMessage_Last(ast, name) ==
    LET hits == {i \in 1..Len(ast) :
                    ast[i].type = "message" /\ JsString(ast[i].name) = name}
    IN IF hits = {} THEN 0 ELSE CHOOSE i \in hits : \A j \in hits : j <= i

\* ast.find((a) => a.type === "message" && a.name === messageName): its index, 0 if none.
FindMessage(ast, name) ==
    LET hits == {i \in 1..Len(ast) :
                    ast[i].type = "message" /\ JsString(ast[i].name) = name}
    IN IF hits = {} THEN 0 ELSE CHOOSE i \in hits : \A j \in hits : i <= j

\* A plausible slip: a number already in the map keeps its first field.
MetaEntry_FirstWins(m, b) ==
    IF b.number \in DOMAIN m THEN m
    ELSE SetKey(m, b.number, [name |-> b.name, number |-> b.number, type |-> b.fieldType])

\* map[b.number] = {name: b.name, number: b.number, type: b.fieldType}
MetaEntry(m, b) ==
    SetKey(m, b.number, [name |-> b.name, number |-> b.number, type |-> b.fieldType])

\* message.body.forEach(...) from child i on: the metadata map, or the throw.
RECURSIVE FlattenBody(_, _, _)
FlattenBody(body, i, m) ==
    IF i > Len(body) THEN Return(m)
    ELSE IF body[i].type = "field"
    THEN FlattenBody(body, i + 1, MetaEntry(m, body[i]))
    ELSE Throw("message body type not yet supported", body[i].type)

\* ast and name are JavaScript values: ast.find on undefined is a TypeError, and no
\* message name equals undefined.
pullMessageMetadataFromAst(ast, name) ==
    IF ast.t = "undefined"
    THEN Throw("TypeError: Cannot read properties of undefined", "find")
    ELSE LET i == FindMessage(ast.a, name)
         IN IF i = 0 THEN Throw("Could not find message", name)
            ELSE FlattenBody(ast.a[i].body, 1, <<>>)

\* Object.values of an object with integer keys: ascending key order.
RECURSIVE SortedKeys(_)
SortedKeys(keys) ==
    IF keys = {} THEN <<>>
    ELSE LET least == CHOOSE k \in keys : \A j \in keys : k <= j
         IN <<least>> \o SortedKeys(keys \ {least})

\* Buffer.from(array).toString(): each element taken & 255 (undefined gives 0), then
\* decoded as UTF-8.  ASCII bytes decode to themselves; a byte that cannot start or
\* continue a sequence decodes to U+FFFD.
REPLACEMENT_CHARACTER == 65533

Utf8Decode(bytes) ==
    [i \in 1..Len(bytes) |->
        LET b == IF bytes[i] = undefined THEN 0 ELSE bytes[i]
        IN IF b < 128 THEN b ELSE REPLACEMENT_CHARACTER]

\* ToBoolean(partiallyDecodedField?.value)
Truthy(v) ==
    CASE v.t = "undefined" -> FALSE
      [] v.t = "number" -> v.n # <<>>
      [] OTHER -> TRUE

\* A plausible slip: a number absent from the wire falls through to the next number.
OptionalValue_NextNumber(partial, number) ==
    IF number \in DOMAIN partial THEN partial[number].value
    ELSE IF number + 1 \in DOMAIN partial THEN partial[number + 1].value
    ELSE JsUndefined

\* partiallyDecodedField?.value
OptionalValue(partial, number) ==
    IF number \in DOMAIN partial THEN partial[number].value ELSE JsUndefined

\* case "string": value ? Buffer.from(value).toString() : ""
FormatString(value) ==
    IF Truthy(value)
    THEN IF value.t = "array"
         THEN Return(JsString(Utf8Decode(value.a)))
         \* Buffer.from(<number>) throws a TypeError
         ELSE Throw("TypeError: The first argument must be of type string or an instance of Buffer, ArrayBuffer, or Array or an Array-like Object", value.t)
    ELSE Return(JsString(<<>>))

\* A plausible slip: any truthy value read as true.
FormatBool_Truthy(value) == Return(JsBoolean(Truthy(value)))

\* case "bool": value === 1
FormatBool(value) == Return(JsBoolean(value.t = "number" /\ value.n = <<1>>))

\* A plausible slip: the ?? 0 left out.
FormatInt32_NoDefault(value) == Return(value)

\* case "int32": (value ?? 0) as number
FormatInt32(value) == Return(IF value.t = "undefined" THEN JsNumber(<<>>) ELSE value)

\* The switch of the forEach callback: the formatted value, or the throw.
FormatField(meta, partial) ==
    LET value == OptionalValue(partial, meta.number)
    IN CASE meta.type = "string" -> FormatString(value)
         [] meta.type = "bool" -> FormatBool(value)
         [] meta.type = "int32" -> FormatInt32(value)
         [] OTHER -> Throw("unknown proto type", meta.type)

\* A plausible slip: a falsy formatted value ("", false, 0) is not stored.
RecordEntry_SkipFalsy(rec, name, formattedValue) ==
    IF formattedValue \in {JsString(<<>>), JsBoolean(FALSE), JsNumber(<<>>)}
    THEN rec
    ELSE (name :> formattedValue) @@ rec

\* map[meta.name] = formattedValue
RecordEntry(rec, name, formattedValue) == (name :> formattedValue) @@ rec

\* Object.values(messageMeta).forEach(...) from position i on: the record, or the throw.
RECURSIVE FormatAll(_, _, _, _, _)
FormatAll(meta, order, i, partial, rec) ==
    IF i > Len(order) THEN Return(rec)
    ELSE LET formattedValue == FormatField(meta[order[i]], partial)
         IN IF formattedValue.throws THEN formattedValue
            ELSE FormatAll(meta, order, i + 1, partial,
                           RecordEntry(rec, meta[order[i]].name, formattedValue.value))

(***************************************************************************)
(* The parser file (src/unnamed/part_000, final revision): the Reader.  A  *)
(* string is the sequence of its characters.                               *)
(***************************************************************************)
\* The nodes of the schema forest (type AST).
Field(fieldType, name, number) ==
    [type |-> "field", fieldType |-> fieldType, name |-> name, number |-> number]
Message(name, body) == [type |-> "message", name |-> name, body |-> body]
Syntax == [type |-> "syntax", value |-> "proto3"]

\* slice(0, n) and substring(n) stop at the end of the string.
Min(a, b) == IF a < b THEN a ELSE b

\* A plausible slip: consume leaves the cursor where it was.
ReaderConsume_NoAdvance(src, characters) ==
    [result |-> SubSeq(src, 1, Min(characters, Len(src))), source |-> src]

\* Reader.consume: the characters returned, slice(0, characters), and the source that
\* remains, substring(characters).
ReaderConsume(src, characters) ==
    [result |-> SubSeq(src, 1, Min(characters, Len(src))),
     source |-> SubSeq(src, Min(characters, Len(src)) + 1, Len(src))]

\* A plausible slip: peek looks at one character whatever it is asked for.
ReaderPeek_OneCharacter(src, characters) == SubSeq(src, 1, Min(1, Len(src)))

\* Reader.peek: slice(0, characters)
ReaderPeek(src, characters) == SubSeq(src, 1, Min(characters, Len(src)))

\* Reader.eof
ReaderEof(src) == ReaderPeek(src, 1) = <<>>

(***************************************************************************)
(* The Lexer.                                                              *)
(***************************************************************************)
\* The characters \s matches and trim removes, among those the texts are written in.
WhitespaceCharacters == {" ", "\t", "\n", "\r"}

LETTERS ==
    {"a", "b", "c", "d", "e", "f", "g", "h", "i", "j", "k", "l", "m", "n", "o", "p", "q",
     "r", "s", "t", "u", "v", "w", "x", "y", "z", "A", "B", "C", "D", "E", "F", "G", "H",
     "I", "J", "K", "L", "M", "N", "O", "P", "Q", "R", "S", "T", "U", "V", "W", "X", "Y",
     "Z"}

DIGITS == <<"0", "1", "2", "3", "4", "5", "6", "7", "8", "9">>

\* String.prototype.trim
Trim(str) ==
    IF \A i \in 1..Len(str) : str[i] \in WhitespaceCharacters THEN <<>>
    ELSE LET first == CHOOSE i \in 1..Len(str) :
                         /\ str[i] \notin WhitespaceCharacters
                         /\ \A j \in 1..(i - 1) : str[j] \in WhitespaceCharacters
             last == CHOOSE i \in 1..Len(str) :
                        /\ str[i] \notin WhitespaceCharacters
                        /\ \A j \in (i + 1)..Len(str) : str[j] \in WhitespaceCharacters
         IN SubSeq(str, first, last)

\* constructor: new Reader(this.proto.trim().replaceAll("\n", ""))
LexerSource(text) == SelectSeq(Trim(text), LAMBDA c : c # "\n")

\* The words of the language, and the name of the tests' message.
Str ==
    [syntax |-> <<"s", "y", "n", "t", "a", "x">>,
     message |-> <<"m", "e", "s", "s", "a", "g", "e">>,
     int32 |-> <<"i", "n", "t", "3", "2">>,
     bool |-> <<"b", "o", "o", "l">>,
     string |-> <<"s", "t", "r", "i", "n", "g">>,
     proto3 |-> <<"p", "r", "o", "t", "o", "3">>,
     M |-> <<"M">>]

isKeyword(value) == value \in {Str.syntax, Str.message, Str.int32, Str.bool, Str.string}

isDeliminator(value) == value \in {<<"{">>, <<"}">>, <<";">>}

isOperator(value) == value \in {<<"=">>}

\* value.at(0) === '"'
isStringLiteral(value) == Len(value) >= 1 /\ value[1] = "\""

\* /^\d+$/
isIntegerLiteral(value) ==
    Len(value) >= 1 /\ \A i \in 1..Len(value) : \E d \in 1..10 : value[i] = DIGITS[d]

\* /\s/g.test(value)
isWhitespace(value) == \E i \in 1..Len(value) : value[i] \in WhitespaceCharacters

\* /^[a-z][a-z0-9_]*$/i
isIdentifier(value) ==
    /\ Len(value) >= 1
    /\ value[1] \in LETTERS
    /\ \A i \in 2..Len(value) :
          \/ value[i] \in LETTERS
          \/ \E d \in 1..10 : value[i] = DIGITS[d]
          \/ value[i] = "_"

\* The integer a string of at most nine decimal digits writes.
RECURSIVE SmallDecimal(_)
SmallDecimal(digits) ==
    IF digits = <<>> THEN 0
    ELSE SmallDecimal(SubSeq(digits, 1, Len(digits) - 1)) * 10
         + (CHOOSE d \in 1..10 : DIGITS[d] = digits[Len(digits)]) - 1

\* The sum of a sequence of numerals.
RECURSIVE NumSum(_)
NumSum(nums) ==
    IF nums = <<>> THEN <<>>
    ELSE IF Len(nums) = 1 THEN nums[1]
    ELSE LET half == Len(nums) \div 2
         IN NumAdd(NumSum(SubSeq(nums, 1, half)), NumSum(SubSeq(nums, half + 1, Len(nums))))

\* a * c, numerals.
NumTimes(a, c) ==
    NumSum([j \in 1..Len(c) |-> IF c[j] = 1 THEN NumTimesPow2(a, Len(c) - j) ELSE <<>>])

\* The number a string of decimal digits writes, as a numeral: nine digits at a time.
RECURSIVE DecimalValue(_)
DecimalValue(digits) ==
    IF Len(digits) <= 9 THEN NumOf(SmallDecimal(digits))
    ELSE NumAdd(NumTimes(DecimalValue(SubSeq(digits, 1, Len(digits) - 9)), NumOf(10^9)),
                NumOf(SmallDecimal(SubSeq(digits, Len(digits) - 8, Len(digits)))))

\* parseInt(value, 10) of a string of decimal digits: a double.
ParseInt10(value) == RoundToDouble(DecimalValue(value))

Token(type, value) == [type |-> type, value |-> value]
EofToken == [type |-> "eof"]

\* Lexer.getToken
getToken(value) ==
    IF isKeyword(value) THEN Return(Token("keyword", JsString(value)))
    ELSE IF isDeliminator(value) THEN Return(Token("deliminator", JsString(value)))
    ELSE IF isIntegerLiteral(value)
    THEN Return(Token("integer-literal", JsNumber(ParseInt10(value))))
    ELSE IF isStringLiteral(value)
    THEN Return(Token("string-literal", JsString(SelectSeq(value, LAMBDA c : c # "\""))))
    ELSE IF isOperator(value) THEN Return(Token("operator", JsString(value)))
    ELSE IF isIdentifier(value) THEN Return(Token("identifier", JsString(value)))
    ELSE Throw("Could not ascertain token type from contents of", JsString(value))

\* while (this.isWhitespace(this.reader.peek())) this.reader.consume(): the loop runs
\* once for each leading whitespace character; what remains.
SkipWhitespace(src) ==
    LET n == CHOOSE k \in 0..Len(src) :
                /\ \A j \in 1..k : isWhitespace(<<src[j]>>)
                /\ k < Len(src) => ~isWhitespace(<<src[k + 1]>>)
    IN ReaderConsume(src, n).source

\* The "consume chars" while loop: it runs once for each leading character that is
\* neither whitespace nor a deliminator; the run accumulated and what remains.
ConsumeChars(src, chars) ==
    LET n == CHOOSE k \in 0..Len(src) :
                /\ \A j \in 1..k : ~isWhitespace(<<src[j]>>) /\ ~isDeliminator(<<src[j]>>)
                /\ k < Len(src)
                      => isWhitespace(<<src[k + 1]>>) \/ isDeliminator(<<src[k + 1]>>)
        c == ReaderConsume(src, n)
    IN [chars |-> chars \o c.result, source |-> c.source]

\* tokes.push(this.getToken(chars)): t is what getToken gave, src what remains.
PushToken(t, src) ==
    IF t.throws
    THEN [throws |-> TRUE, error |-> t.error, source |-> src]
    ELSE [throws |-> FALSE, token |-> t.value, break |-> FALSE, source |-> src]

\* One iteration of the for loop of consume, after its whitespace loop.
ConsumeToken(skipped) ==
    IF ReaderEof(skipped)
    THEN [throws |-> FALSE, token |-> EofToken, break |-> TRUE, source |-> skipped]
    ELSE IF isDeliminator(ReaderPeek(skipped, 1))
    THEN PushToken(getToken(ReaderConsume(skipped, 1).result),
                   ReaderConsume(skipped, 1).source)
    ELSE PushToken(getToken(ConsumeChars(skipped, <<>>).chars),
                   ConsumeChars(skipped, <<>>).source)

\* for (let i = 0; i < tokens; i += 1) { ... } from iteration i on; one is what
\* iteration i did.
RECURSIVE ConsumeLoop(_, _, _, _)
\* A plausible slip: the loop goes on after the eof token.
ConsumeNext_NoBreak(one, tokens, i, tokes) ==
    IF one.throws THEN one
    ELSE ConsumeLoop(one.source, tokens, i + 1, Append(tokes, one.token))

ConsumeNext(one, tokens, i, tokes) ==
    IF one.throws THEN one
    ELSE IF one.break
    THEN [throws |-> FALSE, tokes |-> Append(tokes, one.token), source |-> one.source]
    ELSE ConsumeLoop(one.source, tokens, i + 1, Append(tokes, one.token))

ConsumeLoop(src, tokens, i, tokes) ==
    IF i >= tokens THEN [throws |-> FALSE, tokes |-> tokes, source |-> src]
    ELSE ConsumeNext(ConsumeToken(SkipWhitespace(src)), tokens, i, tokes)

\* The end of consume: one token for tokens = 1, the array otherwise.
ConsumeResult(r, tokens) ==
    IF r.throws THEN r
    ELSE IF tokens = 1
    THEN IF Len(r.tokes) > 1
         THEN [throws |-> TRUE, source |-> r.source,
               error |-> [message |-> "expected only one token to be consumed",
                          arg |-> JsUndefined]]
         ELSE [throws |-> FALSE, value |-> r.tokes[1], source |-> r.source]
    ELSE [throws |-> FALSE, value |-> JsArray(r.tokes), source |-> r.source]

\* Lexer.consume(tokens): one token for tokens = 1, an array of tokens otherwise; or
\* the throw; with what remains of the Reader's source either way.
LexerConsume(src, tokens) == ConsumeResult(ConsumeLoop(src, tokens, 0, <<>>), tokens)

\* A plausible slip: the source is not put back.
PeekResult_NoRestore(res, sourceCopy) == res

\* The end of peek: this.reader.setCurrentSource(sourceCopy); return res.
PeekResult(res, sourceCopy) ==
    IF res.throws THEN res ELSE [res EXCEPT !.source = sourceCopy]

\* Lexer.peek(tokens): consume, then setCurrentSource(sourceCopy) when consume returned.
LexerPeek(src, tokens) == PeekResult(LexerConsume(src, tokens), src)

(***************************************************************************)
(* The Parser.                                                             *)
(***************************************************************************)
\* throw new Error(...), with what remains of the Reader's source.
ThrowAt(message, arg, src) ==
    [throws |-> TRUE, error |-> [message |-> message, arg |-> arg], source |-> src]

\* "value" in token ? token.value : ""
ValueOrEmpty(token) == IF token.type = "eof" THEN JsString(<<>>) ELSE token.value

\* A plausible slip: the token after a declaration is not tested.
AssertSemiColonDelim_NoAssert(val) ==
    IF val.throws THEN val ELSE [throws |-> FALSE, source |-> val.source]

\* consumeAndAssertSemiColonDelim after const val = this.lexer.consume().
AssertSemiColonDelim(val) ==
    IF val.throws THEN val
    ELSE IF ~(val.value.type = "deliminator" /\ val.value.value = JsString(<<";">>))
    THEN ThrowAt("expected a deliminator, instead saw",
                 [type |-> val.value.type, value |-> ValueOrEmpty(val.value)],
                 val.source)
    ELSE [throws |-> FALSE, source |-> val.source]

\* Parser.consumeAndAssertSemiColonDelim: what remains of the source, or the throw.
consumeAndAssertSemiColonDelim(src) == AssertSemiColonDelim(LexerConsume(src, 1))

\* The syntax branch after consumeAndAssertSemiColonDelim: c is contents.
CheckSyntax(c, semi) ==
    IF semi.throws THEN semi
    ELSE IF c[2].type # "operator" \/ c[2].value # JsString(<<"=">>)
    THEN ThrowAt("expected assignment operator after syntax keyword", JsUndefined,
                 semi.source)
    ELSE IF c[3].type # "string-literal" \/ c[3].value # JsString(Str.proto3)
    THEN ThrowAt("expected \"proto3\" after syntax assignment operator", JsUndefined,
                 semi.source)
    ELSE [throws |-> FALSE, kind |-> "syntax", node |-> Syntax, source |-> semi.source]

\* The syntax branch after const contents = this.lexer.consume(3).
SyntaxContents(contents) ==
    IF contents.throws THEN contents
    ELSE CheckSyntax(contents.value.a, consumeAndAssertSemiColonDelim(contents.source))

\* consumeMessage after const [, name, openParen] = this.lexer.consume(3), up to its
\* loop.
CheckMessageHeader(header) ==
    IF header.throws THEN header
    ELSE IF header.value.a[2].type # "identifier"
    THEN ThrowAt("expected identifier after message statement", JsUndefined,
                 header.source)
    ELSE IF ~(/\ header.value.a[3].type = "deliminator"
              /\ header.value.a[3].value = JsString(<<"{">>))
    THEN ThrowAt("expected left curly after message identifier", JsUndefined,
                 header.source)
    ELSE [throws |-> FALSE, kind |-> "message",
          node |-> Message(header.value.a[2].value, <<>>), source |-> header.source]

\* The field branch after consumeAndAssertSemiColonDelim: r is res.
CheckField(r, semi) ==
    IF semi.throws THEN semi
    ELSE IF r[1].type # "keyword" THEN ThrowAt("", JsUndefined, semi.source)
    ELSE IF r[1].value \in {JsString(Str.message), JsString(Str.syntax)}
    THEN ThrowAt("", JsUndefined, semi.source)
    ELSE IF r[2].type # "identifier"
    THEN ThrowAt("expected identifier after type declaration, instead saw", r[2].type,
                 semi.source)
    ELSE IF ~(r[3].type = "operator" /\ r[3].value = JsString(<<"=">>))
    THEN ThrowAt("expected integer-literal for field number after type declaration, instead saw",
                 [type |-> r[3].type, value |-> ValueOrEmpty(r[3])], semi.source)
    ELSE IF r[4].type # "integer-literal"
    THEN ThrowAt("expected integer-literal for field number after type declaration, instead saw",
                 r[4].type, semi.source)
    ELSE [throws |-> FALSE, field |-> Field(r[1].value, r[2].value, r[4].value),
          source |-> semi.source]

\* The field branch after const res = this.lexer.consume(4).
FieldContents(res) ==
    IF res.throws THEN res
    ELSE CheckField(res.value.a, consumeAndAssertSemiColonDelim(res.source))

\* ast.body.push({type: "field", ...}); continue
PushField(f, node) ==
    IF f.throws THEN f
    ELSE [throws |-> FALSE, break |-> FALSE, source |-> f.source,
          ast |-> [node EXCEPT !.body = Append(@, f.field)]]

\* this.lexer.consume(); break
BreakMessage(closing, node) ==
    IF closing.throws THEN closing
    ELSE [throws |-> FALSE, break |-> TRUE, ast |-> node, source |-> closing.source]

\* A plausible slip: a keyword that is no field type is passed over.
MessageBodyToken_SkipUnsupported(peek, src, node) ==
    IF peek.throws THEN peek
    ELSE IF peek.value.type = "deliminator" /\ peek.value.value = JsString(<<"}">>)
    THEN BreakMessage(LexerConsume(src, 1), node)
    ELSE IF peek.value.type # "keyword"
    THEN ThrowAt("expected keyword inside message body", JsUndefined, src)
    ELSE IF peek.value.value
               \in {JsString(Str.bool), JsString(Str.int32), JsString(Str.string)}
    THEN PushField(FieldContents(LexerConsume(src, 4)), node)
    ELSE [BreakMessage(LexerConsume(src, 1), node) EXCEPT !.break = FALSE]

\* A plausible slip: the closing curly is looked at and left in the source.
MessageBodyToken_PeekClosing(peek, src, node) ==
    IF peek.throws THEN peek
    ELSE IF peek.value.type = "deliminator" /\ peek.value.value = JsString(<<"}">>)
    THEN BreakMessage(LexerPeek(src, 1), node)
    ELSE IF peek.value.type # "keyword"
    THEN ThrowAt("expected keyword inside message body", JsUndefined, src)
    ELSE IF peek.value.value
               \in {JsString(Str.bool), JsString(Str.int32), JsString(Str.string)}
    THEN PushField(FieldContents(LexerConsume(src, 4)), node)
    ELSE ThrowAt("Unexpected code path, likely don't support the field type.",
                 JsUndefined, src)

\* One iteration of the while (true) loop of consumeMessage after
\* const peek = this.lexer.peek().
MessageBodyToken(peek, src, node) ==
    IF peek.throws THEN peek
    ELSE IF peek.value.type = "deliminator" /\ peek.value.value = JsString(<<"}">>)
    THEN BreakMessage(LexerConsume(src, 1), node)
    ELSE IF peek.value.type # "keyword"
    THEN ThrowAt("expected keyword inside message body", JsUndefined, src)
    ELSE IF peek.value.value
               \in {JsString(Str.bool), JsString(Str.int32), JsString(Str.string)}
    THEN PushField(FieldContents(LexerConsume(src, 4)), node)
    ELSE ThrowAt("Unexpected code path, likely don't support the field type.",
                 JsUndefined, src)

INFINITE_LOOP_GUARD == 1000

\* One iteration of the while (true) loop of consumeMessage, entered with
\* infiniteLoopGuard = guard: the message node after it, whether the loop breaks and
\* what remains, or the throw.
ConsumeMessageBody(src, node, guard) ==
    IF guard = 0
    THEN ThrowAt("unable to parse message, saw more than 1000 iterations", JsUndefined, src)
    ELSE MessageBodyToken(LexerPeek(src, 1), src, node)

LIM == 50

\* A plausible slip: the test made one iteration late.
LimExceeded_OneLate(l) == l > LIM + 1

\* if (lim > 50)
LimExceeded(l) == l > LIM

\* The body of the while loop of parse after const peek = this.lexer.peek().
DeclarationToken(peek, src) ==
    IF peek.throws THEN peek
    ELSE IF peek.value.type = "keyword" /\ peek.value.value = JsString(Str.syntax)
    THEN SyntaxContents(LexerConsume(src, 3))
    ELSE IF peek.value.type = "keyword" /\ peek.value.value = JsString(Str.message)
    THEN CheckMessageHeader(LexerConsume(src, 3))
    ELSE ThrowAt("unknown token at root level",
                 [type |-> peek.value.type, value |-> ValueOrEmpty(peek.value)], src)

(***************************************************************************)
(* Inputs: buffers as protoc writes them (index.test.ts, generate), schema *)
(* forests as the AST type of the parser allows them.                      *)
(***************************************************************************)
\* The base-128 digits of a numeral, least significant first (at least one).
Groups7(bits) ==
    LET count == IF bits = <<>> THEN 1 ELSE (Len(bits) + 6) \div 7
        padded == PadStart(bits, 7 * count)
    IN [g \in 1..count |->
           NumToInt(SubSeq(padded, 7 * (count - g) + 1, 7 * (count - g) + 7))]

EncodeVarint(bits) ==
    LET g == Groups7(bits)
    IN [i \in 1..Len(g) |-> IF i < Len(g) THEN g[i] + 128 ELSE g[i]]

WireTypeCode(type) == CHOOSE k \in DOMAIN WIRE_TYPE_MAP : WIRE_TYPE_MAP[k] = type

\* The tag varint (fieldNumber << 3) | wireType.
EncodeTag(fieldNumber, type) ==
    EncodeVarint(StripZeros(NumOf(fieldNumber) \o PadStart(ToString2(WireTypeCode(type)), 3)))

EncodeField(f) ==
    EncodeTag(f.number, f.type)
    \o (CASE f.type = "VARINT" -> EncodeVarint(f.value.n)
          [] f.type = "LEN" -> EncodeVarint(NumOf(Len(f.value.a))) \o f.value.a
          [] OTHER -> f.value.a)

RECURSIVE EncodeAll(_)
EncodeAll(fs) == IF fs = <<>> THEN <<>> ELSE EncodeField(Head(fs)) \o EncodeAll(Tail(fs))

WireField(number, type, value) == [number |-> number, type |-> type, value |-> value]

Ones(k) == [i \in 1..k |-> 1]

\* The encoded fields the buffers are built from: one- to five-byte tags, one- to
\* ten-byte varints (an int32 of -1 is written as 2^64 - 1), every wire type, and
\* field numbers that repeat.  Payload bytes are ASCII or 255.
WireFields ==
    { WireField(1, "VARINT", JsNumber(<<1>>)),
      WireField(1, "VARINT", JsNumber(Ones(64))),
      WireField(2, "LEN", JsArray(<<104, 105>>)),
      WireField(2, "I32", JsArray(<<1, 0, 0, 255>>)),
      WireField(3, "I64", JsArray(<<1, 2, 3, 4, 5, 6, 7, 255>>)),
      WireField(16, "VARINT", JsNumber(NumOf(300))),
      WireField(2^28, "VARINT", JsNumber(<<1>>)),
      WireField(3, "VARINT", JsNumber(<<1>> \o Zeros(47) \o <<1>>)) }

\* What may follow the encoded fields: nothing, a tag of an unknown wire type (one
\* byte, two bytes), or a field the buffer ends in the middle of.
Tails ==
    { [kind |-> "none", bytes |-> <<>>],
      [kind |-> "unknown wire type", bytes |-> <<11>>],
      [kind |-> "unknown wire type", bytes |-> <<140, 1, 1>>],
      [kind |-> "truncated", bytes |-> <<8>>],
      [kind |-> "truncated", bytes |-> <<18>>],
      [kind |-> "truncated", bytes |-> <<18, 5, 104>>],
      [kind |-> "truncated", bytes |-> <<8, 255>>] }

RECURSIVE SeqsUpTo(_, _)
SeqsUpTo(S, n) ==
    IF n = 0 THEN {<<>>}
    ELSE LET shorter == SeqsUpTo(S, n - 1)
         IN shorter \cup {Append(q, x) : q \in {r \in shorter : Len(r) = n - 1}, x \in S}

\* Schema forests: every field type on every wire type, a number declared twice, a
\* name declared twice, a message declared twice, an empty and a nested body.
Forests ==
    { <<Message("M", <<Field("int32", "a", 1), Field("string", "b", 2), Field("bool", "c", 3)>>)>>,
      <<Syntax, Message("M", <<Field("bool", "a", 1), Field("int32", "b", 2), Field("string", "c", 3)>>)>>,
      <<Message("M", <<Field("string", "a", 1), Field("bool", "b", 2), Field("int32", "c", 16)>>)>>,
      <<Message("M", <<Field("int32", "a", 1), Field("string", "b", 1)>>)>>,
      <<Message("M", <<Field("int32", "a", 1), Field("bool", "a", 3)>>)>>,
      <<Message("N", <<>>), Message("M", <<Field("bool", "a", 1), Field("bool", "b", 2)>>),
        Message("M", <<Field("int32", "z", 1)>>)>>,
      <<Message("M", <<Field("bool", "a", 1), Message("Inner", <<>>)>>)>> }

MessageNames == {"M", "X", "Inner"}

(***************************************************************************)
(* Spec: one call decodeMessage(binary, protoDefinitionAst, messageName).  *)
(***************************************************************************)
Arguments(fieldCount) ==
    /\ \E fs \in SeqsUpTo(WireFields, fieldCount), tl \in Tails :
          /\ encoded = fs
          /\ tail = tl
          /\ binary = EncodeAll(fs) \o tl.bytes
    /\ byteIndex = 0
    /\ map = <<>>
    /\ partialDecoding = NoValue
    /\ messageMeta = NoValue
    /\ result = NoValue
    /\ thrown = NoValue

\* No Parser or Lexer exists.
NoSchemaText ==
    /\ proto = <<>>
    /\ written = NoValue
    /\ source = <<>>
    /\ rootAst = <<>>
    /\ messageAst = NoValue
    /\ lim = 0
    /\ infiniteLoopGuard = 0
    /\ lexed = <<>>

Init ==
    /\ Arguments(MaxFields)
    /\ NoSchemaText
    /\ protoDefinitionAst \in {JsUndefined} \cup {JsArray(f) : f \in Forests}
    /\ messageName \in {JsUndefined} \cup {JsString(n) : n \in MessageNames}
    /\ call = [fn |-> "decodeMessage"]
    /\ pc = "scan"

\* The while loop of getDecodedFieldNumberToWireFormatMap: one iteration.
ScanIteration ==
    /\ pc = "scan"
    /\ At(binary, byteIndex) # undefined
    /\ LET r == ScanBody(binary, map, byteIndex)
       IN IF r.throws
          THEN /\ pc' = "threw"
               /\ thrown' = r.error
               /\ UNCHANGED <<map, byteIndex>>
          ELSE /\ map' = r.value.map
               /\ byteIndex' = r.value.byteIndex
               /\ UNCHANGED <<pc, thrown>>
    /\ UNCHANGED <<binary, encoded, tail, protoDefinitionAst, messageName,
                   partialDecoding, messageMeta, result, call, schemaVars>>

\* The loop ends; getDecodedFieldNumberToWireFormatMap returns map.
ScanReturn ==
    /\ pc = "scan"
    /\ At(binary, byteIndex) = undefined
    /\ partialDecoding' = JsObject(map)
    /\ pc' = "scanned"
    /\ UNCHANGED <<binary, encoded, tail, protoDefinitionAst, messageName, byteIndex,
                   map, messageMeta, result, thrown, call, schemaVars>>

\* Either argument of the schema is missing.
IsPartialCallArgs ==
    protoDefinitionAst = JsUndefined \/ messageName = JsUndefined

\* A plausible slip: && in place of ||.
IsPartialCall_Both ==
    protoDefinitionAst.t = "undefined" /\ messageName.t = "undefined"

\* typeof protoDefinitionAst === "undefined" || typeof messageName === "undefined"
IsPartialCall ==
    protoDefinitionAst.t = "undefined" \/ messageName.t = "undefined"

\* decodeMessage: return partialDecoding.
ReturnPartialDecoding ==
    /\ pc = "scanned"
    /\ IsPartialCall
    /\ result' = partialDecoding
    /\ pc' = "returned"
    /\ UNCHANGED <<binary, encoded, tail, protoDefinitionAst, messageName, byteIndex,
                   map, partialDecoding, messageMeta, thrown, call, schemaVars>>

\* decodeMessage: const messageMeta = pullMessageMetadataFromAst(...).
PullMessageMetadata ==
    /\ pc = "scanned"
    /\ ~IsPartialCall
    /\ LET r == pullMessageMetadataFromAst(protoDefinitionAst, messageName)
       IN IF r.throws
          THEN /\ pc' = "threw"
               /\ thrown' = r.error
               /\ UNCHANGED messageMeta
          ELSE /\ messageMeta' = JsObject(r.value)
               /\ pc' = "meta"
               /\ UNCHANGED thrown
    /\ UNCHANGED <<binary, encoded, tail, protoDefinitionAst, messageName, byteIndex,
                   map, partialDecoding, result, call, schemaVars>>

\* decodeMessage: Object.values(messageMeta).forEach(...); return map.
FormatFields ==
    /\ pc = "meta"
    /\ LET r == FormatAll(messageMeta.m, SortedKeys(DOMAIN messageMeta.m), 1,
                          partialDecoding.m, <<>>)
       IN IF r.throws
          THEN /\ pc' = "threw"
               /\ thrown' = r.error
               /\ UNCHANGED result
          ELSE /\ result' = JsObject(r.value)
               /\ pc' = "returned"
               /\ UNCHANGED thrown
    /\ UNCHANGED <<binary, encoded, tail, protoDefinitionAst, messageName, byteIndex,
                   map, partialDecoding, messageMeta, call, schemaVars>>

Next ==
    \/ ScanIteration
    \/ ScanReturn
    \/ ReturnPartialDecoding
    \/ PullMessageMetadata
    \/ FormatFields

Spec == Init /\ [][Next]_vars

\* What every step of the call does to its position and to the byte offset: the
\* offset is a number up to eight past the last tag, or NaN.
DecodeStep ==
    /\ pc \in {"scan", "scanned", "meta"}
    /\ pc' \in {"scan", "scanned", "meta", "returned", "threw"}
    /\ byteIndex' \in {NaN} \cup 0..(Len(binary) + 8)

\* decodeMessage is one synchronous call: while it has neither returned nor raised,
\* it takes its next step.
SpecFair == Spec /\ WF_<<pc, byteIndex>>(DecodeStep)

(***************************************************************************)
(* SpecFunctions: one direct call of an exported wire-format function, at  *)
(* any offset of the buffer (the end included).                            *)
(***************************************************************************)
InitFunctions ==
    /\ Arguments(1)
    /\ NoSchemaText
    /\ protoDefinitionAst = JsUndefined
    /\ messageName = JsUndefined
    /\ call = [fn |-> "none"]
    /\ pc = "idle"

Offsets == 0..Len(binary)

Finish(r) ==
    /\ IF r.throws
       THEN pc' = "threw" /\ thrown' = r.error /\ UNCHANGED result
       ELSE pc' = "returned" /\ result' = r.value /\ UNCHANGED thrown
    /\ UNCHANGED <<binary, encoded, tail, protoDefinitionAst, messageName, byteIndex,
                   map, partialDecoding, messageMeta, schemaVars>>

CallParseVarint ==
    /\ pc = "idle"
    /\ \E offset \in Offsets :
          /\ call' = [fn |-> "parseVarint", currentByteIndex |-> offset]
          /\ Finish(Return(parseVarint(binary, offset)))

CallParseFieldType ==
    /\ pc = "idle"
    /\ \E byte \in 0..255 :
          /\ call' = [fn |-> "parseFieldType", byte |-> byte]
          /\ LET r == parseFieldType(byte)
             IN Finish(IF r.throws THEN r ELSE Return(JsString(r.value)))

CallParseFieldNumber ==
    /\ pc = "idle"
    /\ \E offset \in Offsets :
          /\ call' = [fn |-> "parseFieldNumber", currentByteIndex |-> offset]
          /\ Finish(Return(parseFieldNumber(binary, offset)))

CallParseFieldValue ==
    /\ pc = "idle"
    /\ \E offset \in Offsets, type \in WIRE_TYPE :
          /\ type = "LEN" => LenFits(binary, offset)
          /\ call' = [fn |-> "parseFieldValue", currentByteIndex |-> offset, type |-> type]
          /\ Finish(parseFieldValue(binary, offset, type))

NextFunctions ==
    \/ CallParseVarint
    \/ CallParseFieldType
    \/ CallParseFieldNumber
    \/ CallParseFieldValue

SpecFunctions == InitFunctions /\ [][NextFunctions]_vars

(***************************************************************************)
(* Schema texts: declarations written out run by run, then one run         *)
(* deleted, replaced or inserted, and the runs joined by whitespace.       *)
(***************************************************************************)
\* Number.prototype.toString() of an integer 0 <= n < 10^9.
DecimalString(n) ==
    LET count == CHOOSE k \in 1..9 : n < 10^k /\ (k = 1 \/ n >= 10^(k - 1))
    IN [i \in 1..count |-> DIGITS[((n \div 10^(count - i)) % 10) + 1]]

FIELD_TYPES == <<Str.int32, Str.bool, Str.string>>
FIELD_NAMES == <<<<"a">>, <<"b", "_", "2">>, <<"I", "d">>>>

\* A declaration: the syntax statement, or a message with a number of fields; field i
\* has the i-th type and name (in rotation) and the number i.
SyntaxDecl == [kind |-> "syntax"]
MessageDecl(name, fields) == [kind |-> "message", name |-> name, fields |-> fields]

FieldRuns(i) ==
    <<FIELD_TYPES[((i - 1) % 3) + 1], FIELD_NAMES[((i - 1) % 3) + 1], <<"=">>,
      DecimalString(i), <<";">>>>

DeclRuns(d) ==
    IF d.kind = "syntax" THEN <<Str.syntax, <<"=">>, <<"\"">> \o Str.proto3 \o <<"\"">>, <<";">>>>
    ELSE <<Str.message, d.name, <<"{">>>>
         \o ConcatAll([i \in 1..d.fields |-> FieldRuns(i)])
         \o << <<"}">> >>

\* The runs of a text that writes the declarations one after the other.
RunsOf(decls) == ConcatAll([j \in 1..Len(decls) |-> DeclRuns(decls[j])])

NoEdit == [op |-> "none"]

\* The runs put in the place of, or before, a run of a well-formed text.
EditRuns ==
    { Str.message, Str.syntax, Str.int32, <<"r", "e", "p", "e", "a", "t", "e", "d">>,
      <<"=">>, <<"7">>, <<"\"", "p", "r", "o", "t", "o", "2", "\"">>, <<"{">>, <<"}">>,
      <<";">>, <<"$">> }

Edits(runs) ==
    {NoEdit}
    \cup {[op |-> "delete", at |-> i] : i \in 1..Len(runs)}
    \cup {[op |-> "replace", at |-> i, run |-> r] : i \in 1..Len(runs), r \in EditRuns}
    \cup {[op |-> "insert", at |-> i, run |-> r] : i \in 1..(Len(runs) + 1), r \in EditRuns}

ApplyEdit(runs, edit) ==
    CASE edit.op = "none" -> runs
      [] edit.op = "delete" ->
            SubSeq(runs, 1, edit.at - 1) \o SubSeq(runs, edit.at + 1, Len(runs))
      [] edit.op = "replace" -> [runs EXCEPT ![edit.at] = edit.run]
      [] edit.op = "insert" ->
            SubSeq(runs, 1, edit.at - 1) \o <<edit.run>> \o SubSeq(runs, edit.at, Len(runs))

\* How the runs are joined: one space everywhere; nothing next to a deliminator; one
\* tab; one newline; a newline and an indent, with a blank line around the text.
Styles == {"spaced", "tight", "tabs", "lines", "indented"}

Separator(style, left, right) ==
    CASE style = "spaced" -> <<" ">>
      [] style = "tight" ->
            IF isDeliminator(left) \/ isDeliminator(right) THEN <<>> ELSE <<" ">>
      [] style = "tabs" -> <<"\t">>
      [] style = "lines" -> <<"\n">>
      [] style = "indented" -> <<"\n", " ", " ">>

Render(runs, style) ==
    LET body == ConcatAll([i \in 1..Len(runs) |->
                    IF i = 1 THEN runs[i]
                    ELSE Separator(style, runs[i - 1], runs[i]) \o runs[i]])
    IN IF style = "indented" THEN <<"\n", " ">> \o body \o <<" ", "\n">> ELSE body


\* The declarations the short texts are made of.
Declarations ==
    {SyntaxDecl, MessageDecl(Str.M, 0), MessageDecl(Str.M, 1), MessageDecl(<<"F", "o", "o">>, 2)}

\* Texts that need one iteration fewer than the loops allow, and one more.
LongTexts ==
    { [j \in 1..(LIM + 1) |-> MessageDecl(Str.M, 1)],
      [j \in 1..(LIM + 2) |-> SyntaxDecl],
      <<SyntaxDecl, MessageDecl(Str.M, INFINITE_LOOP_GUARD - 1), MessageDecl(Str.M, 0)>>,
      <<MessageDecl(Str.M, INFINITE_LOOP_GUARD)>> }

\* Number of declarations in a short text.
MaxDecls == 2

(***************************************************************************)
(* SpecParser: one call new Parser(proto).parse().                         *)
(***************************************************************************)
\* No decodeMessage call is under way.
NoBuffer ==
    /\ binary = <<>>
    /\ encoded = <<>>
    /\ tail = [kind |-> "none", bytes |-> <<>>]
    /\ protoDefinitionAst = JsUndefined
    /\ messageName = JsUndefined
    /\ byteIndex = 0
    /\ map = <<>>
    /\ partialDecoding = NoValue
    /\ messageMeta = NoValue

\* The schema text: a short text in any style, or one with an edit, or a long one.
SchemaText ==
    \/ \E decls \in SeqsUpTo(Declarations, MaxDecls), style \in Styles :
          /\ written = [decls |-> decls, edit |-> NoEdit, style |-> style]
          /\ proto = Render(RunsOf(decls), style)
    \/ \E decls \in SeqsUpTo(Declarations, MaxDecls) :
          \E edit \in Edits(RunsOf(decls)) \ {NoEdit} :
             /\ written = [decls |-> decls, edit |-> edit, style |-> "spaced"]
             /\ proto = Render(ApplyEdit(RunsOf(decls), edit), "spaced")
    \/ \E decls \in LongTexts :
          /\ written = [decls |-> decls, edit |-> NoEdit, style |-> "tight"]
          /\ proto = Render(RunsOf(decls), "tight")

InitParser ==
    /\ NoBuffer
    /\ SchemaText
    /\ source = LexerSource(proto)
    /\ rootAst = <<>>
    /\ messageAst = NoValue
    /\ lim = 0
    /\ infiniteLoopGuard = 0
    /\ lexed = <<>>
    /\ result = NoValue
    /\ thrown = NoValue
    /\ call = [fn |-> "parse"]
    /\ pc = "parse"

\* An error leaves parse: r is the throw.
Raise(r) ==
    /\ pc' = "threw"
    /\ thrown' = r.error
    /\ source' = r.source

\* parse: the while condition finds the eof token; return rootAst.
ParseReturn ==
    /\ pc = "parse"
    /\ ~LexerPeek(source, 1).throws
    /\ LexerPeek(source, 1).value.type = "eof"
    /\ result' = JsArray(rootAst)
    /\ pc' = "returned"
    /\ UNCHANGED <<wireVars, thrown, call, schemaVars>>

\* rootAst.push(...) for a syntax node; for a message, consumeMessage goes on.
PushDeclaration(d) ==
    IF d.throws
    THEN Raise(d) /\ UNCHANGED <<rootAst, messageAst, infiniteLoopGuard>>
    ELSE IF d.kind = "syntax"
    THEN /\ rootAst' = Append(rootAst, d.node)
         /\ source' = d.source
         /\ UNCHANGED <<pc, thrown, messageAst, infiniteLoopGuard>>
    ELSE /\ messageAst' = d.node
         /\ infiniteLoopGuard' = INFINITE_LOOP_GUARD
         /\ source' = d.source
         /\ pc' = "message"
         /\ UNCHANGED <<thrown, rootAst>>

\* The while loop of parse, from the test of its condition.
ParseLoop(peek) ==
    IF peek.throws
    THEN Raise(peek) /\ UNCHANGED <<lim, rootAst, messageAst, infiniteLoopGuard>>
    ELSE /\ peek.value.type # "eof"
         /\ IF LimExceeded(lim)
            THEN /\ Raise(ThrowAt("too much loopy boi", JsUndefined, source))
                 /\ UNCHANGED <<lim, rootAst, messageAst, infiniteLoopGuard>>
            ELSE /\ lim' = lim + 1
                 /\ PushDeclaration(DeclarationToken(LexerPeek(source, 1), source))

\* parse: one iteration of the while loop, up to the next test of its condition or,
\* for a message, up to the while (true) loop of consumeMessage.
ParseIteration ==
    /\ pc = "parse"
    /\ ParseLoop(LexerPeek(source, 1))
    /\ UNCHANGED <<wireVars, result, call, proto, written, lexed>>

\* The while (true) loop of consumeMessage after one iteration; when it breaks, the
\* message is returned and parse pushes it.
MessageLoop(r) ==
    IF r.throws
    THEN /\ Raise(r)
         /\ infiniteLoopGuard' = IF infiniteLoopGuard = 0 THEN 0 ELSE infiniteLoopGuard - 1
         /\ UNCHANGED <<rootAst, messageAst>>
    ELSE /\ infiniteLoopGuard' = infiniteLoopGuard - 1
         /\ source' = r.source
         /\ UNCHANGED thrown
         /\ IF r.break
            THEN /\ rootAst' = Append(rootAst, r.ast)
                 /\ messageAst' = NoValue
                 /\ pc' = "parse"
            ELSE /\ messageAst' = r.ast
                 /\ UNCHANGED <<rootAst, pc>>

\* consumeMessage: one iteration of the while (true) loop.
ConsumeMessageIteration ==
    /\ pc = "message"
    /\ MessageLoop(ConsumeMessageBody(source, messageAst, infiniteLoopGuard))
    /\ UNCHANGED <<wireVars, result, call, proto, written, lim, lexed>>

NextParser ==
    \/ ParseReturn
    \/ ParseIteration
    \/ ConsumeMessageIteration

SpecParser == InitParser /\ [][NextParser]_vars

\* What every pass through either loop does to the position and the two counters:
\* lim += 1 at most, infiniteLoopGuard set or decremented at most.
ParseStep ==
    /\ pc \in {"parse", "message"}
    /\ pc' \in {"parse", "message", "returned", "threw"}
    /\ lim' \in {lim, lim + 1}
    /\ infiniteLoopGuard' \in {INFINITE_LOOP_GUARD, infiniteLoopGuard, infiniteLoopGuard - 1}

\* parse() is one synchronous call: while it has neither returned nor raised, it
\* takes its next step.
SpecParserFair == SpecParser /\ WF_<<pc, lim, infiniteLoopGuard>>(ParseStep)

(***************************************************************************)
(* SpecLexer: one new Lexer(proto), then any calls of consume and peek.     *)
(***************************************************************************)
\* Most tokens one call asks for.
MaxTokens == 2

\* The runs the texts are made of: every keyword, operator and deliminator; integers,
\* one with leading zeros, and 2^53 with its neighbours; strings, one with a quote
\* inside, one without its closing quote; identifiers; runs that are no token.
LexRuns ==
    { Str.syntax, Str.message, Str.int32, Str.bool, Str.string, <<"=">>,
      <<"{">>, <<"}">>, <<";">>,
      <<"0">>, <<"7">>, <<"0", "3", "0", "0">>,
      <<"9", "0", "0", "7", "1", "9", "9", "2", "5", "4", "7", "4", "0", "9", "9", "1">>,
      <<"9", "0", "0", "7", "1", "9", "9", "2", "5", "4", "7", "4", "0", "9", "9", "2">>,
      <<"9", "0", "0", "7", "1", "9", "9", "2", "5", "4", "7", "4", "0", "9", "9", "3">>,
      <<"\"", "p", "r", "o", "t", "o", "3", "\"">>, <<"\"", "a", "\"", "b", "\"">>,
      <<"\"", "a">>, <<"\"">>,
      <<"a">>, <<"F", "o", "o", "_", "1">>, <<"I", "N", "T", "3", "2">>,
      <<"m", "e", "s", "s", "a", "g", "e", "s">>,
      <<"$">>, <<"_", "a">>, <<"1", "a">>, <<"a", "=", "1">>, <<"=", "=">> }

\* The runs that follow another run in a text.
SecondRuns == {Str.bool, <<"=">>, <<";">>, <<"7">>, <<"a">>, <<"$">>}

\* What stands between two runs.
Separators == {<<" ">>, <<"\t">>, <<"\n">>, <<" ", "\n", " ", " ">>, <<>>}

InitLexer ==
    /\ NoBuffer
    /\ \/ \E sep \in Separators :
             /\ written = [runs |-> <<>>, separator |-> sep]
             /\ proto = sep
       \/ \E run \in LexRuns, sep \in Separators :
             /\ written = [runs |-> <<run>>, separator |-> sep]
             /\ proto = sep \o run \o sep
       \/ \E left \in LexRuns, right \in SecondRuns, sep \in Separators :
             /\ written = [runs |-> <<left, right>>, separator |-> sep]
             /\ proto = left \o sep \o right
    /\ source = LexerSource(proto)
    /\ rootAst = <<>>
    /\ messageAst = NoValue
    /\ lim = 0
    /\ infiniteLoopGuard = 0
    /\ lexed = <<>>
    /\ result = NoValue
    /\ thrown = NoValue
    /\ call = [fn |-> "Lexer"]
    /\ pc = "lexer"

\* The tokens consume has returned so far, up to the first eof token.
Lexed(tokens, r) ==
    IF lexed # <<>> /\ lexed[Len(lexed)] = EofToken THEN lexed
    ELSE lexed \o (IF tokens = 1 THEN <<r.value>> ELSE r.value.a)

\* A call of consume or peek returns or throws: r is what it did.
LexerCall(fn, tokens, r) ==
    /\ call' = [fn |-> fn, tokens |-> tokens, before |-> source]
    /\ source' = r.source
    /\ result' = IF r.throws THEN NoValue ELSE r.value
    /\ thrown' = IF r.throws THEN r.error ELSE NoValue
    /\ lexed' = IF r.throws \/ fn = "peek" THEN lexed ELSE Lexed(tokens, r)
    /\ UNCHANGED <<wireVars, pc, proto, written, rootAst, messageAst, lim,
                   infiniteLoopGuard>>

CallConsume ==
    /\ pc = "lexer"
    /\ \E tokens \in 1..MaxTokens : LexerCall("consume", tokens, LexerConsume(source, tokens))

CallPeek ==
    /\ pc = "lexer"
    /\ \E tokens \in 1..MaxTokens : LexerCall("peek", tokens, LexerPeek(source, tokens))

NextLexer ==
    \/ CallConsume
    \/ CallPeek

SpecLexer == InitLexer /\ [][NextLexer]_vars

(***************************************************************************)
(* SpecReader: one new Reader(source), then any calls of consume, peek and  *)
(* eof.                                                                    *)
(***************************************************************************)
\* Most characters one call asks for.
MaxCharacters == 3

InitReader ==
    /\ NoBuffer
    /\ proto \in { <<>>, <<"a">>, <<" ">>, <<"a", "b">>, <<"\n", "{", "}">>,
                   <<"a", " ", "=", " ", "1", ";">>, <<"a", "a", "a", "a">>,
                   <<"i", "n", "t", "3", "2", " ", "x">> }
    /\ written = NoValue
    /\ source = proto
    /\ rootAst = <<>>
    /\ messageAst = NoValue
    /\ lim = 0
    /\ infiniteLoopGuard = 0
    /\ lexed = <<>>
    /\ result = NoValue
    /\ thrown = NoValue
    /\ call = [fn |-> "Reader"]
    /\ pc = "reader"

CallReaderConsume ==
    /\ pc = "reader"
    /\ \E characters \in 1..MaxCharacters :
          /\ call' = [fn |-> "Reader.consume", characters |-> characters, before |-> source]
          /\ result' = JsString(ReaderConsume(source, characters).result)
          /\ source' = ReaderConsume(source, characters).source
          /\ lexed' = lexed \o ReaderConsume(source, characters).result
    /\ UNCHANGED <<wireVars, pc, thrown, proto, written, rootAst, messageAst, lim,
                   infiniteLoopGuard>>

CallReaderPeek ==
    /\ pc = "reader"
    /\ \E characters \in 1..MaxCharacters :
          /\ call' = [fn |-> "Reader.peek", characters |-> characters, before |-> source]
          /\ result' = JsString(ReaderPeek(source, characters))
    /\ UNCHANGED <<wireVars, pc, thrown, schemaVars>>

CallReaderEof ==
    /\ pc = "reader"
    /\ call' = [fn |-> "Reader.eof", before |-> source]
    /\ result' = JsBoolean(ReaderEof(source))
    /\ UNCHANGED <<wireVars, pc, thrown, schemaVars>>

NextReader ==
    \/ CallReaderConsume
    \/ CallReaderPeek
    \/ CallReaderEof

SpecReader == InitReader /\ [][NextReader]_vars

(***************************************************************************)
(* Arithmetic on numerals, for stating what the functions must return.     *)
(***************************************************************************)
\* floor(a / 2^k)
NumDivPow2(a, k) == IF Len(a) <= k THEN <<>> ELSE SubSeq(a, 1, Len(a) - k)

\* The sum over from <= i <= to of (bytes[i] mod 128) * 128^(i - 1).
RECURSIVE VarintSum(_, _, _)
VarintSum(bytes, from, to) ==
    IF from > to THEN <<>>
    ELSE IF from = to THEN NumTimesPow2(NumOf(bytes[from] % 128), 7 * (from - 1))
    ELSE LET mid == (from + to) \div 2
         IN NumAdd(VarintSum(bytes, from, mid), VarintSum(bytes, mid + 1, to))

\* The value of the varint in bytes.
VarintValue(bytes) == VarintSum(bytes, 1, Len(bytes))

\* A terminated varint of k + 1 bytes starts at offset: k bytes with the high bit
\* set, then one with it clear, all inside the buffer.
VarintAt(buf, offset, k) ==
    /\ offset + k < Len(buf)
    /\ \A i \in 0..(k - 1) : buf[offset + i + 1] >= 128
    /\ buf[offset + k + 1] < 128

VarintBytes(buf, offset, k) == SubSeq(buf, offset + 1, offset + k + 1)

\* The last occurrence of each field number in a list of encoded fields.
LastOccurrences(fs) ==
    [n \in {fs[i].number : i \in 1..Len(fs)} |->
        LET last == CHOOSE i \in 1..Len(fs) :
                       /\ fs[i].number = n
                       /\ \A j \in (i + 1)..Len(fs) : fs[j].number # n
        IN [type |-> fs[last].type, value |-> fs[last].value]]

\* The Field children of the message decodeMessage was asked for.
DeclaredBody ==
    LET ast == protoDefinitionAst.a
        i == CHOOSE k \in 1..Len(ast) :
                /\ ast[k].type = "message" /\ ast[k].name = messageName.s
                /\ \A j \in 1..(k - 1) :
                      ~(ast[j].type = "message" /\ ast[j].name = messageName.s)
    IN ast[i].body

\* Child i is the last one declared with its number.
LastForNumber(body, i) ==
    \A j \in (i + 1)..Len(body) : body[j].number # body[i].number

\* Child i owns its entry of the record: it is the last one declared with its number,
\* and no child that is the last one for a larger number carries its name.
OwnsEntry(body, i) ==
    /\ LastForNumber(body, i)
    /\ \A j \in 1..Len(body) :
          (LastForNumber(body, j) /\ body[j].number > body[i].number)
             => body[j].name # body[i].name

\* decodeMessage was called with a schema and a name, and returned a record.
ReturnedRecord == pc = "returned" /\ call.fn = "decodeMessage" /\ ~IsPartialCallArgs

TypeDefault(fieldType) ==
    CASE fieldType = "string" -> JsString(<<>>)
      [] fieldType = "bool" -> JsBoolean(FALSE)
      [] fieldType = "int32" -> JsNumber(<<>>)

(***************************************************************************)
(* The claims.                                                             *)
(***************************************************************************)
\* The scan has ended, by returning or by raising.
ScanEnded == call.fn = "decodeMessage" /\ pc # "scan"

\* C1: for a buffer that is the concatenation of n >= 0 complete (tag, value)
\* encodings, the scan raises no error and returns the map whose keys are exactly
\* the field numbers in the buffer, each with the wire type and raw value of the last
\* occurrence of that number; the empty buffer gives the empty map.
C1_ScanReturnsLastOccurrences ==
    (ScanEnded /\ tail.kind = "none")
       => /\ partialDecoding = JsObject(LastOccurrences(encoded))
          /\ thrown = NoValue \/ partialDecoding # NoValue

\* C2: at an offset where a terminated varint of 1 to 7 bytes b_0..b_k starts,
\* parseVarint returns the sum of (b_i mod 128) * 128^i and offset + k + 1.
C2_ParseVarintValue ==
    (pc = "returned" /\ call.fn = "parseVarint")
       => \A k \in 0..6 :
             VarintAt(binary, call.currentByteIndex, k)
                => result = [value |-> JsNumber(VarintValue(
                                 VarintBytes(binary, call.currentByteIndex, k))),
                             nextByteIndex |-> call.currentByteIndex + k + 1]

\* C2 witness: parseVarint has returned from a seven-byte varint of 49 bits, and in
\* another run from a one-byte varint.
C2_Witness ==
    /\ pc = "returned" /\ call.fn = "parseVarint"
    /\ VarintAt(binary, call.currentByteIndex, 6)
    /\ Len(result.value.n) = 49
    /\ binary[call.currentByteIndex + 1] % 128 # 0

\* C3: for a tag varint of one to five bytes with value t < 2^32, parseFieldNumber
\* returns floor(t / 8), a non-negative integer, and offset + (bytes of the tag).
C3_ParseFieldNumberIsTagDiv8 ==
    (pc = "returned" /\ call.fn = "parseFieldNumber")
       => \A k \in 0..4 :
             LET t == VarintValue(VarintBytes(binary, call.currentByteIndex, k))
             IN (VarintAt(binary, call.currentByteIndex, k) /\ Len(t) <= 32)
                   => /\ result.fieldNumber >= 0
                      /\ NumOf(result.fieldNumber) = NumDivPow2(t, 3)
                      /\ result.nextByteIndex = call.currentByteIndex + k + 1

\* C4: parseFieldType(b) depends only on b mod 8: VARINT for 0, I64 for 1, LEN for 2,
\* I32 for 5, the error Unknown wire type naming the value for 3, 4, 6 and 7; it
\* returns nothing but these four wire types.
C4_ParseFieldTypeTable ==
    (call.fn = "parseFieldType" /\ pc # "idle")
       => LET low == call.byte % 8
          IN /\ low = 0 => (pc = "returned" /\ result = JsString("VARINT"))
             /\ low = 1 => (pc = "returned" /\ result = JsString("I64"))
             /\ low = 2 => (pc = "returned" /\ result = JsString("LEN"))
             /\ low = 5 => (pc = "returned" /\ result = JsString("I32"))
             /\ low \in {3, 4, 6, 7}
                   => (/\ pc = "threw"
                       /\ thrown = [message |-> "Unknown wire type", arg |-> low]
                       /\ result = NoValue)
             /\ pc = "returned" => result.s \in {"VARINT", "I64", "LEN", "I32"}

\* C4 witness: parseFieldType has raised on a byte above 7 whose low bits are 6.
C4_Witness ==
    /\ call.fn = "parseFieldType" /\ pc = "threw"
    /\ call.byte = 254

\* C5: where a complete value lies inside the buffer, parseFieldValue returns its
\* bytes verbatim, in buffer order: for LEN with length varint N the N bytes after
\* the length varint and offset + (bytes of the length varint) + N, for I32 the next
\* 4 bytes and offset + 4, for I64 the next 8 bytes and offset + 8.
C5_ParseFieldValueVerbatim ==
    (pc = "returned" /\ call.fn = "parseFieldValue")
       => LET offset == call.currentByteIndex
          IN /\ (call.type = "I32" /\ offset + 4 <= Len(binary))
                   => result = [value |-> JsArray(SubSeq(binary, offset + 1, offset + 4)),
                                nextByteIndex |-> offset + 4]
             /\ (call.type = "I64" /\ offset + 8 <= Len(binary))
                   => result = [value |-> JsArray(SubSeq(binary, offset + 1, offset + 8)),
                                nextByteIndex |-> offset + 8]
             /\ call.type = "LEN"
                   => \A k \in 0..(Len(binary) - 1) :
                         LET N == VarintValue(VarintBytes(binary, offset, k))
                             start == offset + k + 1
                         IN (/\ VarintAt(binary, offset, k)
                             /\ Len(N) <= 30
                             /\ start + NumToInt(N) <= Len(binary))
                               => result =
                                     [value |-> JsArray(SubSeq(binary, start + 1,
                                                               start + NumToInt(N))),
                                      nextByteIndex |-> start + NumToInt(N)]

\* C5 witness: parseFieldValue has returned the two bytes of a LEN value that other
\* bytes follow in the buffer.
C5_Witness ==
    /\ pc = "returned" /\ call.fn = "parseFieldValue" /\ call.type = "LEN"
    /\ call.currentByteIndex = 1
    /\ Len(binary) > 4
    /\ binary[2] = 2
    /\ result.value.a = <<binary[3], binary[4]>>

\* C6: when the encodings are followed by a tag whose first byte has low bits 3, 4, 6
\* or 7, the scan never returns: it runs up to that tag and raises the unknown wire
\* type error there, and the caller gets no map.
C6_UnknownWireTypeIsFatal ==
    (call.fn = "decodeMessage" /\ tail.kind = "unknown wire type")
       => /\ pc \in {"scan", "threw"}
          /\ pc = "scan" => (/\ byteIndex <= Len(EncodeAll(encoded))
                             /\ At(binary, byteIndex) # undefined
                             /\ thrown = NoValue)
          /\ pc = "threw" => (/\ thrown = [message |-> "Unknown wire type",
                                           arg |-> tail.bytes[1] % 8]
                              /\ byteIndex = Len(EncodeAll(encoded)))
          /\ result = NoValue
          /\ partialDecoding = NoValue

\* C6 witness: two fields were decoded, then the scan raised at the unknown tag.
C6_Witness ==
    /\ call.fn = "decodeMessage" /\ tail.kind = "unknown wire type"
    /\ pc = "threw"
    /\ Len(encoded) = 2
    /\ DOMAIN map # {}

\* C7: called without a schema forest or without a message name, decodeMessage
\* returns exactly the map the scan returned and never consults the schema.
C7_PartialDecodingReturnsScanMap ==
    (/\ call.fn = "decodeMessage"
     /\ protoDefinitionAst = JsUndefined \/ messageName = JsUndefined
     /\ partialDecoding # NoValue)
       => /\ pc \in {"scanned", "returned"}
          /\ partialDecoding = JsObject(map)
          /\ pc = "returned" => result = JsObject(map)
          /\ messageMeta = NoValue
          /\ thrown = NoValue

\* C7 witness: a forest was given but no name, and the scan map came back.
C7_Witness ==
    /\ call.fn = "decodeMessage" /\ pc = "returned"
    /\ protoDefinitionAst # JsUndefined /\ messageName = JsUndefined
    /\ result = JsObject(map)
    /\ Cardinality(DOMAIN map) = 2

\* C8 as stated: every declared field whose number is not in the wire map appears in
\* the record with its type default ("" for string, false for bool, 0 for int32).
C8_EveryAbsentFieldDefaulted ==
    ReturnedRecord
       => \A i \in 1..Len(DeclaredBody) :
             LET f == DeclaredBody[i]
             IN f.number \notin DOMAIN partialDecoding.m
                   => /\ f.name \in DOMAIN result.m
                      /\ result.m[f.name] = TypeDefault(f.fieldType)

\* C8 amended: every declared field whose number is not in the wire map, that is the
\* last field declared with its number and whose name no field kept for a larger
\* number carries, appears in the record with its type default.
C8_AbsentOwnerFieldDefaulted ==
    ReturnedRecord
       => \A i \in 1..Len(DeclaredBody) :
             LET f == DeclaredBody[i]
             IN (f.number \notin DOMAIN partialDecoding.m /\ OwnsEntry(DeclaredBody, i))
                   => /\ f.name \in DOMAIN result.m
                      /\ result.m[f.name] = TypeDefault(f.fieldType)

\* C8 witness: a record came back with a string, a bool and an int32 field defaulted.
C8_Witness ==
    /\ ReturnedRecord
    /\ \A ty \in {"string", "bool", "int32"} :
          \E i \in 1..Len(DeclaredBody) :
             /\ DeclaredBody[i].fieldType = ty
             /\ DeclaredBody[i].number \notin DOMAIN partialDecoding.m
             /\ OwnsEntry(DeclaredBody, i)
             /\ result.m[DeclaredBody[i].name] = TypeDefault(ty)

\* The signed integer a returned number is, when it lies in the 32-bit signed range.
IsInt32(v, r) == v.t = "number" /\ Len(v.n) <= 31 /\ NumToInt(v.n) = r

\* C9: for an int32 field present on the wire as a VARINT with value u, the returned
\* value is the integer r with -2^31 <= r < 2^31 and r congruent to u modulo 2^32.
C9_Int32IsNarrowed ==
    ReturnedRecord
       => \A i \in 1..Len(DeclaredBody) :
             LET f == DeclaredBody[i]
             IN (/\ OwnsEntry(DeclaredBody, i)
                 /\ f.fieldType = "int32"
                 /\ f.number \in DOMAIN partialDecoding.m
                 /\ partialDecoding.m[f.number].type = "VARINT"
                 /\ partialDecoding.m[f.number].value.t = "number")
                   => IsInt32(result.m[f.name],
                              ToInt32(partialDecoding.m[f.number].value.n))

FieldNames(body) == {body[i].name : i \in 1..Len(body)}

\* C11 as stated: the key set of a returned record equals the set of names of all
\* Field children of the message, present on the wire or not.
C11_KeysAreAllFieldNames ==
    ReturnedRecord => DOMAIN result.m = FieldNames(DeclaredBody)

\* C11 amended: the key set of a returned record equals the set of names of the Field
\* children that are the last declared with their number, present on the wire or not.
C11_KeysAreLastDeclaredFieldNames ==
    ReturnedRecord
       => DOMAIN result.m
             = {DeclaredBody[i].name :
                   i \in {k \in 1..Len(DeclaredBody) : LastForNumber(DeclaredBody, k)}}

\* C11 witness: a record of three entries came back, one of its fields present on the
\* wire and one absent.
C11_Witness ==
    /\ ReturnedRecord
    /\ Cardinality(DOMAIN result.m) = 3
    /\ \E i, j \in 1..Len(DeclaredBody) :
          /\ DeclaredBody[i].number \in DOMAIN partialDecoding.m
          /\ DeclaredBody[j].number \notin DOMAIN partialDecoding.m

\* The kind of JavaScript value a declared field type stands for.
KindOf(fieldType) ==
    CASE fieldType = "string" -> "string"
      [] fieldType = "bool" -> "boolean"
      [] fieldType = "int32" -> "number"

\* C12: in a returned record each value has the kind of its declared field type (a
\* string for string, a boolean for bool, an integer for int32), whatever wire type
\* the field number carries on the wire.
C12_ValueKindIsDeclaredKind ==
    ReturnedRecord
       => \A i \in 1..Len(DeclaredBody) :
             OwnsEntry(DeclaredBody, i)
                => result.m[DeclaredBody[i].name].t = KindOf(DeclaredBody[i].fieldType)

\* Some top-level node of the forest is a message with the requested name.
MessageDeclared ==
    \E k \in 1..Len(protoDefinitionAst.a) :
       /\ protoDefinitionAst.a[k].type = "message"
       /\ protoDefinitionAst.a[k].name = messageName.s

\* decodeMessage was called with a schema and a name and has gone past the lookup.
LookedUp ==
    /\ call.fn = "decodeMessage" /\ ~IsPartialCallArgs
    /\ pc \in {"meta", "returned", "threw"}
    /\ partialDecoding # NoValue

\* C13: when no top-level node is a message with the requested name, an error naming
\* that name is raised and no record is produced; when several top-level messages
\* carry the name, the metadata is that of the first one in forest order.
C13_MissingMessageOrFirstMatch ==
    LookedUp
       => IF MessageDeclared
          THEN /\ thrown # NoValue => thrown.message # "Could not find message"
               /\ messageMeta # NoValue
                     => \A n \in DOMAIN messageMeta.m :
                           \E i \in 1..Len(DeclaredBody) :
                              /\ DeclaredBody[i].number = n
                              /\ DeclaredBody[i].name = messageMeta.m[n].name
                              /\ DeclaredBody[i].fieldType = messageMeta.m[n].type
          ELSE /\ pc = "threw"
               /\ thrown = [message |-> "Could not find message", arg |-> messageName]
               /\ messageMeta = NoValue
               /\ result = NoValue

\* C13 witness: the forest holds two top-level messages of the requested name and the
\* metadata holds the two fields of the first; in another run the name is only that
\* of a nested message and the lookup raised.
C13_Witness ==
    /\ LookedUp /\ MessageDeclared
    /\ Cardinality({k \in 1..Len(protoDefinitionAst.a) :
                      /\ protoDefinitionAst.a[k].type = "message"
                      /\ protoDefinitionAst.a[k].name = messageName.s}) = 2
    /\ messageMeta # NoValue
    /\ DOMAIN messageMeta.m = {1, 2}

\* The numbers of the Field children of a body.
FieldNumbers(body) == {body[i].number : i \in 1..Len(body)}

\* C14: for a message whose body holds only Field children, the metadata map has
\* exactly the field numbers of the body as keys, each mapped to the name, number and
\* type of the last Field child carrying that number; entry.number is its key.
C14_MetadataLastSeenWins ==
    (LookedUp /\ MessageDeclared
     /\ \A i \in 1..Len(DeclaredBody) : DeclaredBody[i].type = "field")
       => /\ messageMeta # NoValue
          /\ DOMAIN messageMeta.m = FieldNumbers(DeclaredBody)
          /\ \A n \in DOMAIN messageMeta.m :
                /\ messageMeta.m[n].number = n
                /\ \E i \in 1..Len(DeclaredBody) :
                      /\ LastForNumber(DeclaredBody, i)
                      /\ DeclaredBody[i].number = n
                      /\ messageMeta.m[n].name = DeclaredBody[i].name
                      /\ messageMeta.m[n].type = DeclaredBody[i].fieldType

\* C14 witness: the body declares one number twice and the metadata holds the second
\* declaration.
C14_Witness ==
    /\ LookedUp /\ MessageDeclared
    /\ messageMeta # NoValue
    /\ Len(DeclaredBody) = 2
    /\ DeclaredBody[1].number = DeclaredBody[2].number
    /\ messageMeta.m[DeclaredBody[2].number].name = DeclaredBody[2].name
    /\ DeclaredBody[1].name # DeclaredBody[2].name

\* The text is written by the grammar: its declarations, no run changed.
GrammarText == call.fn = "parse" /\ written.edit = NoEdit

ParseEnded == call.fn = "parse" /\ pc \in {"returned", "threw"}

\* The node of a declaration as it is written.
FieldNode(i) ==
    Field(JsString(FIELD_TYPES[((i - 1) % 3) + 1]), JsString(FIELD_NAMES[((i - 1) % 3) + 1]),
          JsNumber(NumOf(i)))

NodeOf(d) ==
    IF d.kind = "syntax" THEN Syntax
    ELSE Message(JsString(d.name), [i \in 1..d.fields |-> FieldNode(i)])

ForestOf(decls) == [j \in 1..Len(decls) |-> NodeOf(decls[j])]

\* C15: for every text written by the grammar, whatever the number of declarations
\* and of fields, parse returns one node per declaration in source order, each with
\* what the declaration says.
C15_GrammarTextParses ==
    (GrammarText /\ ParseEnded)
        => pc = "returned" /\ result = JsArray(ForestOf(written.decls))

\* The tokens of the text as it is written: its runs, which whitespace separates.
WrittenRuns == ApplyEdit(RunsOf(written.decls), written.edit)

\* The run is a token of the type, with the value if one is asked for.
IsToken(run, type) == ~getToken(run).throws /\ getToken(run).value.type = type
IsTokenOf(run, type, value) == IsToken(run, type) /\ getToken(run).value.value = value

\* Where a declaration starts: at the keywords syntax and message, which the grammar
\* has nowhere else.
DeclarationStarts(runs) == {i \in 1..Len(runs) : runs[i] \in {Str.syntax, Str.message}}

\* Where the declaration that starts at i ends.
DeclarationEnd(runs, i) ==
    IF \E j \in DeclarationStarts(runs) : j > i
    THEN (CHOOSE j \in DeclarationStarts(runs) :
             j > i /\ \A k \in DeclarationStarts(runs) : k > i => j <= k) - 1
    ELSE Len(runs)

\* syntaxDecl := 'syntax' '=' '"proto3"' ';'
IsSyntaxDecl(runs, from, to) ==
    /\ to = from + 3
    /\ runs[from] = Str.syntax
    /\ runs[from + 1] = <<"=">>
    /\ IsTokenOf(runs[from + 2], "string-literal", JsString(Str.proto3))
    /\ runs[from + 3] = <<";">>

\* fieldDecl := ('int32' | 'bool' | 'string') identifier '=' integer ';'
IsFieldDecl(runs, from) ==
    /\ runs[from] \in {Str.int32, Str.bool, Str.string}
    /\ IsToken(runs[from + 1], "identifier")
    /\ runs[from + 2] = <<"=">>
    /\ IsToken(runs[from + 3], "integer-literal")
    /\ runs[from + 4] = <<";">>

\* messageDecl := 'message' identifier '{' fieldDecl* '}'
IsMessageDecl(runs, from, to) ==
    /\ to >= from + 3
    /\ (to - from - 3) % 5 = 0
    /\ runs[from] = Str.message
    /\ IsToken(runs[from + 1], "identifier")
    /\ runs[from + 2] = <<"{">>
    /\ runs[to] = <<"}">>
    /\ \A j \in 0..(((to - from - 3) \div 5) - 1) : IsFieldDecl(runs, from + 3 + 5 * j)

\* proto := (syntaxDecl | messageDecl)* EOF
Derives(runs) ==
    /\ runs # <<>> => 1 \in DeclarationStarts(runs)
    /\ \A i \in DeclarationStarts(runs) :
          \/ IsSyntaxDecl(runs, i, DeclarationEnd(runs, i))
          \/ IsMessageDecl(runs, i, DeclarationEnd(runs, i))

\* C16: parse returns only when the whole token sequence derives from the grammar;
\* on any deviation it raises an error, and then nothing is returned.
C16_ReturnsOnlyWhatDerives ==
    ParseEnded =>
        /\ pc = "returned" => Derives(WrittenRuns)
        /\ ~Derives(WrittenRuns) => pc = "threw"
        /\ pc = "threw" => result = NoValue

\* A text that lacks the ';' of a declaration, and nothing else, was refused.
C16_Witness ==
    /\ ParseEnded
    /\ written.edit.op = "delete"
    /\ RunsOf(written.decls)[written.edit.at] = <<";">>
    /\ pc = "threw"
    /\ thrown.message = "expected a deliminator, instead saw"

\* The constructs the edits put in a message body: a nested message, the syntax
\* keyword, a modifier.
Unsupported == {Str.message, Str.syntax, <<"r", "e", "p", "e", "a", "t", "e", "d">>}

\* The positions of a well-formed text where a message body expects a field
\* declaration or its closing '}'.
BodyPositions(runs) ==
    {p \in 1..Len(runs) : runs[p] \in {Str.int32, Str.bool, Str.string, <<"}">>}}

\* The text has an unsupported construct where a field declaration or the closing '}'
\* of a message was written, in front of it or in its place.
UnsupportedInBody ==
    /\ call.fn = "parse"
    /\ written.edit.op \in {"insert", "replace"}
    /\ written.edit.run \in Unsupported
    /\ written.edit.at \in BodyPositions(RunsOf(written.decls))

\* The declaration a position of the text lies in, and the number of field
\* declarations of that message that end before the position.
DeclarationOf(runs, p) == Cardinality({i \in DeclarationStarts(runs) : i <= p})
FieldsBefore(runs, p) ==
    Cardinality({i \in BodyPositions(runs) : i < p /\ runs[i] # <<"}">>
                    /\ DeclarationOf(runs, i) = DeclarationOf(runs, p)})

\* C17: an unsupported construct in a message body makes parse raise an error at that
\* token: every declaration and field before it has been read, the construct is the
\* next thing in the source, and no forest is returned, so no message node omits it.
C17_UnsupportedConstructRaises ==
    UnsupportedInBody =>
        /\ pc # "returned"
        /\ result = NoValue
        /\ pc = "threw" =>
              /\ \E k \in 0..Len(source) :
                    /\ \A i \in 1..k : source[i] \in WhitespaceCharacters
                    /\ Len(source) >= k + Len(written.edit.run)
                    /\ SubSeq(source, k + 1, k + Len(written.edit.run)) = written.edit.run
              /\ rootAst = ForestOf(SubSeq(written.decls, 1,
                               DeclarationOf(RunsOf(written.decls), written.edit.at) - 1))
              /\ messageAst = [NodeOf(written.decls[DeclarationOf(RunsOf(written.decls),
                                                                 written.edit.at)])
                                 EXCEPT !.body = SubSeq(@, 1,
                                     FieldsBefore(RunsOf(written.decls), written.edit.at))]

\* A message nested after a field declaration was refused.
C17_Witness ==
    /\ UnsupportedInBody
    /\ written.edit.run = Str.message
    /\ pc = "threw"
    /\ messageAst # NoValue
    /\ Len(messageAst.body) >= 1

\* The number of iterations the loops need for a text written by the grammar with
\* spaces between its runs: one for each declaration; in a message, one for each field
\* declaration and one for the closing '}'.
SeparatedGrammarText == GrammarText /\ written.style \in {"spaced", "tight", "tabs"}
BodyIterations(d) == IF d.kind = "syntax" THEN 0 ELSE d.fields + 1

\* C18: the body of the top-level loop runs at most 51 times and that of each
\* message-body loop at most 1000 times; a text that needs one more iteration makes
\* parse raise 'too much loopy boi' or 'unable to parse message, saw more than 1000
\* iterations', and nothing is returned.
C18_LoopsAreBounded ==
    call.fn = "parse" =>
        /\ lim <= 51
        /\ Len(rootAst) <= 51
        /\ pc \in {"message", "threw"} /\ messageAst # NoValue =>
              /\ 1000 - infiniteLoopGuard \in 0..1000
              /\ Len(messageAst.body) <= 1000 - infiniteLoopGuard
        /\ (/\ SeparatedGrammarText
            /\ ParseEnded
            /\ \A j \in 1..Min(Len(written.decls), 51) :
                    BodyIterations(written.decls[j]) <= 1000
            /\ Len(written.decls) > 51)
              => /\ pc = "threw"
                 /\ thrown.message = "too much loopy boi"
                 /\ result = NoValue
        /\ (/\ SeparatedGrammarText
            /\ ParseEnded
            /\ \E j \in 1..Min(Len(written.decls), 51) :
                    BodyIterations(written.decls[j]) > 1000)
              => /\ pc = "threw"
                 /\ thrown.message = "unable to parse message, saw more than 1000 iterations"
                 /\ result = NoValue

\* A text of more than 51 declarations was refused after 51 iterations.
C18_Witness ==
    /\ SeparatedGrammarText
    /\ Len(written.decls) > 51
    /\ pc = "threw"
    /\ thrown.message = "too much loopy boi"
    /\ lim = 51
    /\ Len(rootAst) = 51

\* The first run of a source: after the leading whitespace, one deliminator character,
\* or the characters up to the next whitespace, deliminator or the end.
EndsRun(c) == c \in WhitespaceCharacters \cup {"{", "}", ";"}

RunStart(src) ==
    CHOOSE k \in 1..(Len(src) + 1) :
        /\ \A i \in 1..(k - 1) : src[i] \in WhitespaceCharacters
        /\ k <= Len(src) => src[k] \notin WhitespaceCharacters

RunEnd(src, from) ==
    IF src[from] \in {"{", "}", ";"} THEN from
    ELSE CHOOSE k \in from..Len(src) :
            /\ \A i \in from..k : ~EndsRun(src[i])
            /\ k < Len(src) => EndsRun(src[k + 1])

FirstRun(src) ==
    IF RunStart(src) > Len(src) THEN <<>>
    ELSE SubSeq(src, RunStart(src), RunEnd(src, RunStart(src)))

AllIn(run, chars) == \A i \in 1..Len(run) : run[i] \in chars
Digits == {DIGITS[d] : d \in 1..10}

\* The token of a run by the rules of classification, first match first; no token for
\* a run that matches none.
Classified(run) ==
    IF run \in {<<"{">>, <<"}">>, <<";">>} THEN Token("deliminator", JsString(run))
    ELSE IF run \in {Str.syntax, Str.message, Str.int32, Str.bool, Str.string}
    THEN Token("keyword", JsString(run))
    ELSE IF run = <<"=">> THEN Token("operator", JsString(run))
    ELSE IF AllIn(run, Digits) THEN Token("integer-literal", JsNumber(DecimalValue(run)))
    ELSE IF run[1] = "\""
    THEN Token("string-literal", JsString(SelectSeq(run, LAMBDA c : c # "\"")))
    ELSE IF run[1] \in LETTERS /\ AllIn(run, LETTERS \cup Digits \cup {"_"})
    THEN Token("identifier", JsString(run))
    ELSE NoValue

\* consume() was called on a source that has a run.
ConsumedARun ==
    /\ call.fn = "consume"
    /\ call.tokens = 1
    /\ FirstRun(call.before) # <<>>

\* C19: the token consume() returns for the next run is the one the rules of
\* classification give, an integer literal with its base-10 value; for a run that
\* matches no rule it raises an error naming the run and returns no token.
C19_TokenIsClassifiedRun ==
    ConsumedARun =>
        IF Classified(FirstRun(call.before)) = NoValue
        THEN result = NoValue /\ thrown # NoValue
                /\ thrown.arg = JsString(FirstRun(call.before))
        ELSE thrown = NoValue /\ result = Classified(FirstRun(call.before))

\* The text is two runs with the separator between them, and consume(2) was called on
\* the new Lexer.
TwoRunsConsumed(separator) ==
    /\ call.fn = "consume"
    /\ call.tokens = 2
    /\ call.before = LexerSource(proto)
    /\ Len(written.runs) = 2
    /\ written.separator = separator

\* What consume(2) does on the new Lexer of the two runs with a space between them.
SpaceSeparated ==
    LexerConsume(LexerSource(written.runs[1] \o <<" ">> \o written.runs[2]), 2)

\* C20: the tokens of two runs with a newline between them are the tokens of the two
\* runs with a space between them.
C20_NewlineSeparatesRuns ==
    TwoRunsConsumed(<<"\n">>) =>
        /\ result = (IF SpaceSeparated.throws THEN NoValue ELSE SpaceSeparated.value)
        /\ thrown = (IF SpaceSeparated.throws THEN SpaceSeparated.error ELSE NoValue)

\* peek(k) was the last call, and it returned.
PeekReturned == call.fn = "peek" /\ thrown = NoValue

\* C21: a peek(k) that returns leaves the Reader's source as it was; the call that
\* follows it returns the same tokens if it is peek(k) or consume(k), and the first of
\* them if it is consume(1).
C21_PeekIsConsumeWithoutAdvance ==
    [][/\ (call'.fn = "peek" /\ thrown' = NoValue) => source' = source
       /\ (PeekReturned /\ call'.fn \in {"peek", "consume"} /\ call'.tokens = call.tokens)
             => thrown' = NoValue /\ result' = result
       /\ (PeekReturned /\ call'.fn = "consume" /\ call'.tokens = 1)
             => /\ thrown' = NoValue
                /\ result' = (IF call.tokens = 1 THEN result ELSE result.a[1])]_vars

\* peek(2) returned two tokens of a text and left the source in place.
C21_Witness ==
    /\ PeekReturned
    /\ call.tokens = 2
    /\ Len(result.a) = 2
    /\ result.a[2] # EofToken
    /\ source = call.before
    /\ source # <<>>

\* The number of runs of a source: a run starts at a deliminator, or at a character
\* that is no whitespace and follows the start, a whitespace or a deliminator.
RunCount(src) ==
    Cardinality({i \in 1..Len(src) :
        /\ src[i] \notin WhitespaceCharacters
        /\ (i = 1 \/ EndsRun(src[i - 1]) \/ src[i] \in {"{", "}", ";"})})

\* The tokens a call returned: consume() and peek() return one token, not an array.
Returned == IF call.tokens = 1 THEN <<result>> ELSE result.a

\* The last call returned, and found the end of the input: consume returned the eof
\* token, or peek() showed it as the next token.
AtEndOfInput ==
    /\ call.fn \in {"consume", "peek"}
    /\ thrown = NoValue
    /\ Returned[Len(Returned)] = EofToken
    /\ call.fn = "consume" \/ call.tokens = 1

\* C22: with nothing or only whitespace left, consume() returns the eof token and
\* does not raise; a call for k tokens on a source with fewer than k runs returns the
\* tokens of the runs and then one eof token, the last element; once consume has
\* returned the eof token, every later consume() and peek() returns it.
C22_EofIsTerminal ==
    /\ [](call.fn \in {"consume", "peek"} =>
            /\ RunCount(call.before) = 0 => thrown = NoValue
            /\ (thrown = NoValue /\ RunCount(call.before) < call.tokens) =>
                  /\ Len(Returned) = RunCount(call.before) + 1
                  /\ \A i \in 1..Len(Returned) :
                        (Returned[i] = EofToken) <=> (i = Len(Returned))
            /\ (thrown = NoValue /\ RunCount(call.before) >= call.tokens) =>
                  /\ Len(Returned) = call.tokens
                  /\ \A i \in 1..Len(Returned) : Returned[i] # EofToken)
    /\ [][AtEndOfInput =>
            /\ thrown' = NoValue
            /\ result' = (IF call'.tokens = 1 THEN EofToken ELSE JsArray(<<EofToken>>))]_vars

\* consume(2) on a text of one run returned its token and the eof token.
C22_Witness ==
    /\ call.fn = "consume"
    /\ call.tokens = 2
    /\ thrown = NoValue
    /\ Len(result.a) = 2
    /\ result.a[1] # EofToken
    /\ result.a[2] = EofToken

\* The first n characters of a string, all of it if it has fewer.
FirstCharacters(str, n) == [i \in 1..(IF n < Len(str) THEN n ELSE Len(str)) |-> str[i]]

\* C23: Reader.peek(n) returns the first min(n, remaining length) characters of the
\* remaining source and leaves it unchanged; the call that follows returns the same
\* if it is peek(n) or consume(n).
C23_ReaderPeekIsPure ==
    /\ [](call.fn = "Reader.peek" =>
            /\ result = JsString(FirstCharacters(call.before, call.characters))
            /\ source = call.before)
    /\ [][(/\ call.fn = "Reader.peek"
           /\ call'.fn \in {"Reader.peek", "Reader.consume"}
           /\ call'.characters = call.characters) => result' = result]_vars

\* peek(3) returned the two characters that remain of a longer source.
C23_Witness ==
    /\ call.fn = "Reader.peek"
    /\ call.characters = 3
    /\ Len(source) = 2
    /\ Len(proto) > 2
    /\ result = JsString(source)

\* C24: what consume has returned so far, followed by the remaining source, is the
\* original source; consume(n) returns min(n, remaining length) characters and
\* shortens the remaining source by that many; eof() is true exactly when the
\* remaining source is empty, and an empty source stays empty.
C24_ConsumePartitionsTheSource ==
    /\ [](/\ lexed \o source = proto
          /\ call.fn = "Reader.consume" =>
                /\ result = JsString(FirstCharacters(call.before, call.characters))
                /\ Len(source) = Len(call.before) - Len(result.s)
                /\ call.before = result.s \o source
          /\ call.fn = "Reader.eof" => result = JsBoolean(source = <<>>))
    /\ [][source = <<>> => source' = <<>>]_vars

\* consume(3) on a source of two remaining characters returned both, after an
\* earlier consume, and the source is exhausted.
C24_Witness ==
    /\ call.fn = "Reader.consume"
    /\ call.characters = 3
    /\ Len(call.before) = 2
    /\ Len(proto) > 2
    /\ result = JsString(call.before)
    /\ source = <<>>

\* consume on an exhausted source returned the empty string.
C24_WitnessExhausted ==
    /\ call.fn = "Reader.consume"
    /\ call.before = <<>>
    /\ proto # <<>>
    /\ result = JsString(<<>>)

\* C25: parse() terminates on every schema text, returning or raising: an iteration
\* of the top-level loop or of the message-body loop that goes on to another
\* iteration has consumed at least one token, so what remains of the source is a
\* proper suffix of what remained before.  (Every step of the call is a ParseStep
\* that moves the position or a counter: the fairness asks for nothing else.)
C25_ParseTerminates ==
    /\ <>(pc \in {"returned", "threw"})
    /\ [][ParseStep /\ <<pc, lim, infiniteLoopGuard>>' # <<pc, lim, infiniteLoopGuard>>]_vars
    /\ [][(pc \in {"parse", "message"} /\ pc' \in {"parse", "message"}) =>
             /\ Len(source') < Len(source)
             /\ source' = SubSeq(source, Len(source) - Len(source') + 1, Len(source))]_vars

\* parse() has returned a forest after the message-body loop ran for a message with
\* two fields.
C25_Witness ==
    /\ pc = "returned"
    /\ \E j \in 1..Len(rootAst) : rootAst[j].type = "message" /\ Len(rootAst[j].body) = 2
    /\ source = <<>>

\* parse() has raised on a malformed text inside a message body.
C25_WitnessRaised ==
    /\ pc = "threw"
    /\ written.edit # NoEdit
    /\ lim > 0
    /\ infiniteLoopGuard \in 1..(INFINITE_LOOP_GUARD - 1)

\* What a call consume() would have done on a source: the token or the error.
FirstToken(src) ==
    IF LexerConsume(src, 1).throws THEN [thrown |-> LexerConsume(src, 1).error]
    ELSE [returned |-> LexerConsume(src, 1).value]

\* C26: a peek(k) that raises a lexical error leaves the remaining source as it was
\* before the call, and the consume() that follows does what it would have done on
\* that source.
C26_FailedPeekRestoresSource ==
    /\ [](call.fn = "peek" /\ thrown # NoValue => source = call.before)
    /\ [][(call.fn = "peek" /\ thrown # NoValue /\ call'.fn = "consume" /\ call'.tokens = 1)
             => (IF thrown' # NoValue THEN [thrown |-> thrown'] ELSE [returned |-> result'])
                   = FirstToken(call.before)]_vars

\* The scan succeeded, the named message exists and its body declares fields only.
OnlyFieldsDeclared ==
    /\ LookedUp
    /\ MessageDeclared
    /\ \A i \in 1..Len(DeclaredBody) : DeclaredBody[i].type = "field"

\* C27: when the scan succeeds and the named message exists and declares only int32,
\* bool and string fields, decodeMessage raises no error, whichever wire type each
\* declared field number carries.
C27_MismatchedWireTypeNeverRaises == OnlyFieldsDeclared => pc # "threw"

\* C28: the scan of every buffer ends, returning a map or raising; each iteration
\* that goes on to another moves the byte offset forward by at least 2; parseVarint
\* stops at the latest one position past the end of the buffer.
C28_ScanTerminates ==
    /\ <>(pc # "scan")
    /\ [][(pc = "scan" /\ pc' = "scan") => byteIndex' >= byteIndex + 2]_vars
    /\ [](\A offset \in 0..Len(binary) :
             /\ VarintLastIndex(binary, offset) <= Len(binary)
             /\ parseVarint(binary, offset).nextByteIndex <= Len(binary) + 1)

\* C29: every value of a map the scan returns was read from inside the buffer: a
\* VARINT value is a number, every other value is an array of bytes 0..255, of four
\* elements for I32 and eight for I64; no element is missing or undefined, also when
\* the buffer ends in the middle of a field.
C29_MapHoldsOnlyBufferValues ==
    partialDecoding # NoValue =>
       \A k \in DOMAIN partialDecoding.m :
          IF partialDecoding.m[k].type = "VARINT"
          THEN partialDecoding.m[k].value.t = "number"
          ELSE /\ partialDecoding.m[k].value.t = "array"
               /\ \A i \in 1..Len(partialDecoding.m[k].value.a) :
                     partialDecoding.m[k].value.a[i] \in 0..255
               /\ partialDecoding.m[k].type = "I32" => Len(partialDecoding.m[k].value.a) = 4
               /\ partialDecoding.m[k].type = "I64" => Len(partialDecoding.m[k].value.a) = 8

\* The field numbers the named message declares, and the wire map without the entries
\* of every other number.
DeclaredNumbers == {DeclaredBody[i].number : i \in 1..Len(DeclaredBody)}
DeclaredEntries ==
    [k \in DOMAIN partialDecoding.m \cap DeclaredNumbers |-> partialDecoding.m[k]]

\* What the assembler does with the declared entries alone.
FromDeclaredEntries ==
    FormatAll(messageMeta.m, SortedKeys(DOMAIN messageMeta.m), 1, DeclaredEntries, <<>>)

\* C30: what decodeMessage returns or raises after the lookup is what it returns or
\* raises for the wire map without the undeclared numbers, so two buffers whose wire
\* maps agree on the declared numbers give equal records; the keys of the record are
\* the names of declared fields.
C30_UndeclaredFieldsHaveNoInfluence ==
    (LookedUp /\ messageMeta # NoValue /\ pc \in {"returned", "threw"})
       => /\ pc = "returned" =>
                /\ ~FromDeclaredEntries.throws
                /\ result = JsObject(FromDeclaredEntries.value)
                /\ DOMAIN result.m \subseteq
                      {DeclaredBody[i].name : i \in 1..Len(DeclaredBody)}
          /\ pc = "threw" =>
                /\ FromDeclaredEntries.throws
                /\ thrown = FromDeclaredEntries.error

\* A record came back for a wire map with a declared and an undeclared number, both
\* with values that are not the default.
C30_Witness ==
    /\ ReturnedRecord
    /\ \E k \in DOMAIN partialDecoding.m \ DeclaredNumbers :
          partialDecoding.m[k].type = "LEN"
    /\ \E k \in DOMAIN partialDecoding.m \cap DeclaredNumbers :
          \E i \in 1..Len(DeclaredBody) :
             /\ DeclaredBody[i].number = k
             /\ result.m[DeclaredBody[i].name] # TypeDefault(DeclaredBody[i].fieldType)

====
